---------------------------- MODULE Spec2Model ----------------------------
(***************************************************************************)
(* Model of the RedBank MCP banking-data tool layer:                       *)
(*   demos/redbank-demo/mcp-server/redbank-mcp/{database_manager,          *)
(*   mcp_server}.py and demos/mcp-server/mcp_server/{database_manager,     *)
(*   mcp_server}.py.                                                       *)
(*                                                                         *)
(* Four specifications share the module's variables:                       *)
(*   SpecDate      validate_date as a function of its two arguments        *)
(*   SpecSingleton threads racing through DatabaseManager.__new__/__init__ *)
(*   SpecSeq       one tool invocation at a time on the shared connection  *)
(*   SpecConc      two overlapping tool invocations on the shared          *)
(*                 connection and cursor                                   *)
(* A specification leaves the variables of the other parts untouched.      *)
(***************************************************************************)
EXTENDS Integers, Sequences, FiniteSets, TLC

VARIABLES
    \* ---- validate_date (SpecDate)
    date_str,      \* the value passed as date_str (a Python value)
    param_name,    \* the value passed as param_name
    dres,          \* outcome of the call, NoOutcome before it ran
    \* ---- DatabaseManager (SpecSingleton)
    _instance,     \* DatabaseManager._instance: 0 is None, else the object's id
    _lock,         \* DatabaseManager._lock: 0 is free, else the holding thread
    _initialized,  \* the instance's _initialized attribute
    conn,          \* the instance's conn attribute: 0 is not set, else a connection id
    cursor,        \* the instance's cursor attribute: 0 is not set, else the id of its connection
    opened,        \* connection ids psycopg.connect has returned so far
    closed,        \* connection ids that were closed
    curclosed,     \* connection ids whose cursor was closed
    spc,           \* per thread: position inside get_instance()/close()
    self,          \* per thread: the object __new__ handed to __init__
    sret,          \* per thread: what its last get_instance() returned (0: nothing yet)
    sfail,         \* per thread: the exception its last completed get_instance() raised ("": none)
    cret,          \* the close() calls so far: the state of conn each found, how it ended
    \* ---- tool handlers (SpecSeq, SpecConc)
    server,        \* which server process this is: "redbank" or "financials"
    store,         \* the database content: the customers, statements, transactions tables
    procs,         \* the threads that serve tool invocations
    pc,            \* per thread: position inside the wrapped handler
    call,          \* per thread: the invocation it serves (server, tool, arguments)
    query,         \* per thread: the statement it built (sql fragments, parameters)
    own,           \* per thread: the rows its own execute produced
    exc,           \* per thread: the exception in flight inside the wrapper
    outcome,       \* per thread: what the caller received
    nexec,         \* per thread: execute calls issued by the current invocation
    nroll,         \* per thread: rollback calls issued by the current invocation
    logged,        \* per thread: the error line the current invocation logged
    curres,        \* the shared cursor's current result set
    tx,            \* the shared connection's transaction status
    \* ---- WhisperService.transcribe (SpecWhisper)
    wpc,           \* position inside transcribe
    wargs,         \* the arguments of the call: filename, audio_data
    suffix,        \* the local suffix
    temp_filename, \* the local temp_filename: 0 is None, else the file's number
    files,         \* the temporary files on disk: number and suffix
    wexc,          \* the exception caught by the except clause ("": none)
    wres,          \* what the call hands its caller
    \* ---- ResponseService and its routes (SpecResponse)
    conversation_history, \* ResponseService.conversation_history
    rpc,           \* position of the request being served
    rcur,          \* the request being served: route, prompt, number, history length found
    rbefore,       \* the length of conversation_history when invoke was entered
    rres,          \* what the last invoke returned
    rn,            \* requests served so far
    \* ---- AgentService (SpecAgent)
    session_id,    \* AgentService.session_id: 0 is None, else the session's number
    agent_history, \* AgentService.conversation_history
    apc,           \* position inside invoke
    atext,         \* the text argument of the current invoke
    sessions,      \* sessions the agent has created so far
    turns,         \* the turns created so far: the invoke's number, the session id sent
    ares,          \* what the last invoke returned
    an             \* invoke calls so far

dateVars == <<date_str, param_name, dres>>
dmVars   == <<_instance, _lock, _initialized, conn, cursor, opened, closed,
              curclosed, spc, self, sret, sfail, cret>>
srvVars  == <<server, store, procs, pc, call, query, own, exc, outcome, nexec, nroll, logged,
              curres, tx>>
whVars   == <<wpc, wargs, suffix, temp_filename, files, wexc, wres>>
rsVars   == <<conversation_history, rpc, rcur, rbefore, rres, rn>>
agVars   == <<session_id, agent_history, apc, atext, sessions, turns, ares, an>>
appVars  == <<whVars, rsVars, agVars>>
vars     == <<dateVars, dmVars, srvVars, appVars>>

----------------------------------------------------------------------------
(* Python values.  A value is a record [ty, s]: its Python type name and   *)
(* its text as a sequence of one-character strings.                        *)

PyNone      == [ty |-> "NoneType", s |-> <<>>]
PyStr(cs)   == [ty |-> "str", s |-> cs]
PyInt(cs)   == [ty |-> "int", s |-> cs]
PyFloat(cs) == [ty |-> "float", s |-> cs]

Digits == {"0", "1", "2", "3", "4", "5", "6", "7", "8", "9"}

DigitVal(c) ==
    CASE c = "0" -> 0 [] c = "1" -> 1 [] c = "2" -> 2 [] c = "3" -> 3
      [] c = "4" -> 4 [] c = "5" -> 5 [] c = "6" -> 6 [] c = "7" -> 7
      [] c = "8" -> 8 [] c = "9" -> 9 [] OTHER -> 0

\* int(text) of a run of digits, a leading blank skipped as int() does
RECURSIVE DecVal(_, _)
DecVal(cs, acc) ==
    IF cs = <<>> THEN acc
    ELSE IF Head(cs) = " " THEN DecVal(Tail(cs), acc)
    ELSE DecVal(Tail(cs), 10 * acc + DigitVal(Head(cs)))

\* the characters of cs joined into one string, as an f-string renders them
RECURSIVE Join(_)
Join(cs) == IF cs = <<>> THEN "" ELSE Head(cs) \o Join(Tail(cs))

\* bool(v)
Truthy(v) ==
    CASE v.ty = "NoneType" -> FALSE
      [] v.ty = "str"      -> v.s # <<>>
      [] v.ty = "int"      -> DecVal(v.s, 0) # 0
      [] v.ty = "float"    -> \E i \in 1..Len(v.s) : v.s[i] \in Digits \ {"0"}
      [] OTHER             -> TRUE

\* str(v) inside an f-string
Render(v) == IF v.ty = "NoneType" THEN "None" ELSE Join(v.s)

----------------------------------------------------------------------------
(* Outcomes of a call: a returned value or a raised exception.             *)
(* msg is the exception's message as the sequence of its f-string pieces.  *)

NoOutcome == [kind |-> "none", etype |-> "", value |-> PyNone, msg |-> <<>>]
Returned(v) == [kind |-> "return", etype |-> "", value |-> v, msg |-> <<>>]
Raised(t, m) == [kind |-> "raise", etype |-> t, value |-> PyNone, msg |-> m]

----------------------------------------------------------------------------
(* datetime.strptime(date_str, "%Y-%m-%d"): the format compiles to         *)
(*   (\d\d\d\d)-(1[0-2]|0[1-9]|[1-9])-(3[0-1]|[1-2]\d|0[1-9]|[1-9]| [1-9])  *)
(* which is matched at the start of the text; text left over after the     *)
(* match, and a year/month/day that is no date, raise ValueError.          *)

At(cs, i) == IF i \in 1..Len(cs) THEN cs[i] ELSE ""

\* \d\d\d\d at position i: the position after it, 0 when it does not match
MatchY(cs, i) ==
    IF \A k \in 0..3 : At(cs, i + k) \in Digits THEN i + 4 ELSE 0

\* the ends of the month alternatives that match at i, in the order tried
MonthEnds(cs, i) ==
    (IF At(cs, i) = "1" /\ At(cs, i + 1) \in {"0", "1", "2"}
        THEN <<i + 2>> ELSE <<>>)
    \o (IF At(cs, i) = "0" /\ At(cs, i + 1) \in Digits \ {"0"}
        THEN <<i + 2>> ELSE <<>>)
    \o (IF At(cs, i) \in Digits \ {"0"} THEN <<i + 1>> ELSE <<>>)

\* the ends of the day alternatives that match at i, in the order tried
DayEnds(cs, i) ==
    (IF At(cs, i) = "3" /\ At(cs, i + 1) \in {"0", "1"}
        THEN <<i + 2>> ELSE <<>>)
    \o (IF At(cs, i) \in {"1", "2"} /\ At(cs, i + 1) \in Digits
        THEN <<i + 2>> ELSE <<>>)
    \o (IF At(cs, i) = "0" /\ At(cs, i + 1) \in Digits \ {"0"}
        THEN <<i + 2>> ELSE <<>>)
    \o (IF At(cs, i) \in Digits \ {"0"} THEN <<i + 1>> ELSE <<>>)
    \o (IF At(cs, i) = " " /\ At(cs, i + 1) \in Digits \ {"0"}
        THEN <<i + 2>> ELSE <<>>)

Slice(cs, a, b) == SubSeq(cs, a, b - 1)

NoMatch == [found |-> FALSE, Y |-> 0, m |-> 0, d |-> 0, end |-> 0]

\* the groups once the month ends before position me and the day before de
Groups(cs, me, de) ==
    [found |-> TRUE,
     Y     |-> DecVal(Slice(cs, 1, 5), 0),
     m     |-> DecVal(Slice(cs, 6, me), 0),
     d     |-> DecVal(Slice(cs, me + 1, de), 0),
     end   |-> de - 1]

\* the month alternatives ms in the order tried: the first one after which
\* "-" and a day follow decides the match
RECURSIVE TryMonths(_, _)
TryMonths(cs, ms) ==
    IF ms = <<>> THEN NoMatch
    ELSE IF At(cs, Head(ms)) = "-" /\ DayEnds(cs, Head(ms) + 1) # <<>>
         THEN Groups(cs, Head(ms), Head(DayEnds(cs, Head(ms) + 1)))
    ELSE TryMonths(cs, Tail(ms))

\* format_regex.match(data_string): the groups and the end of the match
RegexMatch(cs) ==
    IF MatchY(cs, 1) # 0 /\ At(cs, 5) = "-"
    THEN TryMonths(cs, MonthEnds(cs, 6))
    ELSE NoMatch

IsLeap(y) == y % 4 = 0 /\ (y % 100 # 0 \/ y % 400 = 0)

DaysInMonth(y, m) ==
    IF m = 2 THEN (IF IsLeap(y) THEN 29 ELSE 28)
    ELSE IF m \in {4, 6, 9, 11} THEN 30 ELSE 31

\* datetime.date(y, m, d) accepts the triple
IsDate(y, m, d) ==
    y \in 1..9999 /\ m \in 1..12 /\ d \in 1..DaysInMonth(y, m)

\* what strptime makes of the match f of the text v
Converted(v, f) ==
    IF ~f.found THEN "ValueError"
    ELSE IF f.end # Len(v.s) THEN "ValueError"
    ELSE IF ~IsDate(f.Y, f.m, f.d) THEN "ValueError"
    ELSE ""

\* the exception strptime raises on v, "" when it returns a datetime
Strptime(v) ==
    IF v.ty # "str" THEN "TypeError" ELSE Converted(v, RegexMatch(v.s))

DateFormatText == " must be in YYYY-MM-DD format (e.g., 2025-01-15), got: "

\* the try/except of validate_date around strptime's outcome e
DateChecked(v, p, e) ==
    IF e = "" THEN Returned(v)
    ELSE IF e = "ValueError"
         THEN Raised("ValueError", <<p, DateFormatText, Render(v)>>)
    ELSE Raised(e, <<"strptime() argument 1 must be str, not ", v.ty>>)

validate_date(v, p) == DateChecked(v, p, Strptime(v))

----------------------------------------------------------------------------
(* SpecDate: validate_date applied to one pair of arguments.               *)

\* date strings are put together from these parts; the parser sees only
\* the resulting characters
YearParts  == {<<"2","0","2","5">>, <<"2","0","2","4">>, <<"1","9","0","0">>,
               <<"0","0","0","0">>, <<"2","0","2">>}
SepParts   == {<<"-">>, <<"/">>}
MonthParts == {<<"0","1">>, <<"1">>, <<"0","2">>, <<"0","4">>, <<"1","2">>,
               <<"1","3">>, <<"0","0">>}
DayParts   == {<<"1","5">>, <<"5">>, <<"0","5">>, <<" ","5">>, <<"2","9">>,
               <<"3","0">>, <<"3","1">>, <<"3","2">>, <<"0","0">>}
TailParts  == {<<>>, <<"x">>, <<" ">>}

DateTexts ==
    {y \o p \o m \o p \o d \o z :
        y \in YearParts, p \in SepParts, m \in MonthParts, d \in DayParts,
        z \in TailParts}
    \cup {<<>>}

DateArgs   == {PyStr(cs) : cs \in DateTexts}
                \cup {PyNone, PyInt(<<"2","0","2","5","0","1","1","5">>)}
ParamNames == {"start_date", "end_date"}

DateIdle == date_str = PyNone /\ param_name = "" /\ dres = NoOutcome

InitDate ==
    /\ date_str \in DateArgs
    /\ param_name \in ParamNames
    /\ dres = NoOutcome

ValidateDate ==
    /\ dres.kind = "none"
    /\ param_name # ""
    /\ dres' = validate_date(date_str, param_name)
    /\ UNCHANGED <<date_str, param_name>>
    /\ UNCHANGED <<dmVars, srvVars, appVars>>

----------------------------------------------------------------------------
(* DatabaseManager: the singleton of database_manager.py.  Each step is    *)
(* one read or write of the class or instance attributes, so that threads  *)
(* interleave between them as Python threads do.                           *)

NThreads == 2
Threads  == 1..NThreads

DmInit ==
    /\ _instance = 0
    /\ _lock = 0
    /\ _initialized = "unset"
    /\ conn = 0
    /\ cursor = 0
    /\ opened = {}
    /\ closed = {}
    /\ curclosed = {}
    /\ spc = [t \in Threads |-> "idle"]
    /\ self = [t \in Threads |-> 0]
    /\ sret = [t \in Threads |-> 0]
    /\ sfail = [t \in Threads |-> ""]
    /\ cret = {}

\* get_instance(): return cls()
GetInstance(t) ==
    /\ spc[t] = "idle"
    /\ spc' = [spc EXCEPT ![t] = "new_check"]
    /\ UNCHANGED <<_instance, _lock, _initialized, conn, cursor, opened,
                   closed, curclosed, self, sret, sfail>>
    /\ UNCHANGED cret
    /\ UNCHANGED <<dateVars, srvVars, appVars>>

\* __new__: if cls._instance is None  (outside the lock)
NewCheck(t) ==
    /\ spc[t] = "new_check"
    /\ spc' = [spc EXCEPT ![t] = IF _instance = 0 THEN "new_lock" ELSE "new_ret"]
    /\ UNCHANGED <<_instance, _lock, _initialized, conn, cursor, opened,
                   closed, curclosed, self, sret, sfail>>
    /\ UNCHANGED cret
    /\ UNCHANGED <<dateVars, srvVars, appVars>>

\* __new__: with cls._lock
NewLock(t) ==
    /\ spc[t] = "new_lock"
    /\ _lock = 0
    /\ _lock' = t
    /\ spc' = [spc EXCEPT ![t] = "new_check2"]
    /\ UNCHANGED <<_instance, _initialized, conn, cursor, opened, closed,
                   curclosed, self, sret, sfail>>
    /\ UNCHANGED cret
    /\ UNCHANGED <<dateVars, srvVars, appVars>>

\* __new__: if cls._instance is None  (under the lock)
NewCheck2(t) ==
    /\ spc[t] = "new_check2"
    /\ spc' = [spc EXCEPT ![t] = IF _instance = 0 THEN "new_create" ELSE "new_unlock"]
    /\ UNCHANGED <<_instance, _lock, _initialized, conn, cursor, opened,
                   closed, curclosed, self, sret, sfail>>
    /\ UNCHANGED cret
    /\ UNCHANGED <<dateVars, srvVars, appVars>>

\* __new__: cls._instance = super().__new__(cls); the new object is named
\* after the thread that made it
NewCreate(t) ==
    /\ spc[t] = "new_create"
    /\ _instance' = t
    /\ spc' = [spc EXCEPT ![t] = "new_setinit"]
    /\ UNCHANGED <<_lock, _initialized, conn, cursor, opened, closed,
                   curclosed, self, sret, sfail>>
    /\ UNCHANGED cret
    /\ UNCHANGED <<dateVars, srvVars, appVars>>

\* __new__: cls._instance._initialized = False
NewSetInit(t) ==
    /\ spc[t] = "new_setinit"
    /\ _initialized' = "false"
    /\ spc' = [spc EXCEPT ![t] = "new_unlock"]
    /\ UNCHANGED <<_instance, _lock, conn, cursor, opened, closed, curclosed,
                   self, sret, sfail>>
    /\ UNCHANGED cret
    /\ UNCHANGED <<dateVars, srvVars, appVars>>

\* __new__: leaving the with block
NewUnlock(t) ==
    /\ spc[t] = "new_unlock"
    /\ _lock' = 0
    /\ spc' = [spc EXCEPT ![t] = "new_ret"]
    /\ UNCHANGED <<_instance, _initialized, conn, cursor, opened, closed,
                   curclosed, self, sret, sfail>>
    /\ UNCHANGED cret
    /\ UNCHANGED <<dateVars, srvVars, appVars>>

\* __new__: return cls._instance; type.__call__ then runs __init__ on it
NewRet(t) ==
    /\ spc[t] = "new_ret"
    /\ self' = [self EXCEPT ![t] = _instance]
    /\ spc' = [spc EXCEPT ![t] = "init_check"]
    /\ UNCHANGED <<_instance, _lock, _initialized, conn, cursor, opened,
                   closed, curclosed, sret, sfail>>
    /\ UNCHANGED cret
    /\ UNCHANGED <<dateVars, srvVars, appVars>>

\* __init__: if self._initialized: return
InitCheck(t) ==
    /\ spc[t] = "init_check"
    /\ \/ /\ _initialized = "unset"
          /\ spc' = [spc EXCEPT ![t] = "idle"]
          /\ sfail' = [sfail EXCEPT ![t] = "AttributeError"]
          /\ sret' = sret
       \/ /\ _initialized = "true"
          /\ spc' = [spc EXCEPT ![t] = "idle"]
          /\ sret' = [sret EXCEPT ![t] = self[t]]
          /\ sfail' = [sfail EXCEPT ![t] = ""]
       \/ /\ _initialized = "false"
          /\ spc' = [spc EXCEPT ![t] = "init_connect"]
          /\ UNCHANGED <<sret, sfail>>
    /\ UNCHANGED <<_instance, _lock, _initialized, conn, cursor, opened,
                   closed, curclosed, self>>
    /\ UNCHANGED cret
    /\ UNCHANGED <<dateVars, srvVars, appVars>>

\* the connections the database server accepts in one run
MaxConnects == 2

\* __init__ as it would be if a failed connect left the manager marked
\* initialized
InitConnect_marking(t) ==
    /\ spc[t] = "init_connect"
    /\ \/ /\ Cardinality(opened) < MaxConnects
          /\ conn' = Cardinality(opened) + 1
          /\ opened' = opened \cup {Cardinality(opened) + 1}
          /\ spc' = [spc EXCEPT ![t] = "init_cursor"]
          /\ sfail' = sfail
          /\ _initialized' = _initialized
       \/ /\ spc' = [spc EXCEPT ![t] = "idle"]
          /\ sfail' = [sfail EXCEPT ![t] = "psycopg.OperationalError"]
          /\ UNCHANGED <<conn, opened>>
          /\ _initialized' = "true"
    /\ UNCHANGED <<_instance, _lock, cursor, closed, curclosed,
                   self, sret>>
    /\ UNCHANGED cret
    /\ UNCHANGED <<dateVars, srvVars, appVars>>

\* __init__: self.conn = psycopg.connect(...), which returns a new
\* connection or raises; the except clause logs and re-raises
InitConnect(t) ==
    /\ spc[t] = "init_connect"
    /\ \/ /\ Cardinality(opened) < MaxConnects
          /\ conn' = Cardinality(opened) + 1
          /\ opened' = opened \cup {Cardinality(opened) + 1}
          /\ spc' = [spc EXCEPT ![t] = "init_cursor"]
          /\ sfail' = sfail
       \/ /\ spc' = [spc EXCEPT ![t] = "idle"]
          /\ sfail' = [sfail EXCEPT ![t] = "psycopg.OperationalError"]
          /\ UNCHANGED <<conn, opened>>
    /\ UNCHANGED <<_instance, _lock, _initialized, cursor, closed, curclosed,
                   self, sret>>
    /\ UNCHANGED cret
    /\ UNCHANGED <<dateVars, srvVars, appVars>>

\* __init__: self.cursor = self.conn.cursor(); a closed connection raises
InitCursor(t) ==
    /\ spc[t] = "init_cursor"
    /\ IF conn \in closed
       THEN /\ spc' = [spc EXCEPT ![t] = "idle"]
            /\ sfail' = [sfail EXCEPT ![t] = "psycopg.OperationalError"]
            /\ cursor' = cursor
       ELSE /\ cursor' = conn
            /\ spc' = [spc EXCEPT ![t] = "init_set"]
            /\ sfail' = sfail
    /\ UNCHANGED <<_instance, _lock, _initialized, conn, opened, closed,
                   curclosed, self, sret>>
    /\ UNCHANGED cret
    /\ UNCHANGED <<dateVars, srvVars, appVars>>

\* __init__: self._initialized = True, and the constructor returns
InitSet(t) ==
    /\ spc[t] = "init_set"
    /\ _initialized' = "true"
    /\ sret' = [sret EXCEPT ![t] = self[t]]
    /\ sfail' = [sfail EXCEPT ![t] = ""]
    /\ spc' = [spc EXCEPT ![t] = "idle"]
    /\ UNCHANGED <<_instance, _lock, conn, cursor, opened, closed, curclosed,
                   self>>
    /\ UNCHANGED cret
    /\ UNCHANGED <<dateVars, srvVars, appVars>>

\* close() as it would be without the tests of its attributes
IsSet_always(attr) == TRUE

\* close(): the test `hasattr(self, a) and self.a` of an attribute
IsSet(attr) == attr # 0

\* close(): what the call raises ("ok": nothing); a .close() reached on an
\* attribute that was never assigned is an AttributeError, closing a cursor
\* or a connection that is closed already is not an error in psycopg
CloseOutcome(cur, cn) ==
    IF IsSet(cur) /\ cur = 0 THEN "AttributeError"
    ELSE IF IsSet(cn) /\ cn = 0 THEN "AttributeError"
    ELSE "ok"

\* close() runs on the manager: self.cursor.close(), then self.conn.close()
Closing(t) ==
    /\ cret' = cret \cup {[found |-> IF conn = 0 THEN "unset"
                                     ELSE IF conn \in closed THEN "closed"
                                     ELSE "open",
                          out |-> CloseOutcome(cursor, conn)]}
    /\ curclosed' = IF IsSet(cursor) /\ cursor # 0
                    THEN curclosed \cup {cursor} ELSE curclosed
    /\ closed' = IF CloseOutcome(cursor, conn) = "ok" /\ IsSet(conn)
                 THEN closed \cup {conn} ELSE closed
    /\ UNCHANGED <<_instance, _lock, _initialized, conn, cursor, opened, spc,
                   self, sret, sfail>>
    /\ UNCHANGED <<dateVars, srvVars, appVars>>

\* close(), called on a manager the thread holds
Close(t) ==
    /\ spc[t] = "idle"
    /\ sret[t] # 0
    /\ Closing(t)

\* close(), called on DatabaseManager._instance by a thread whose
\* get_instance() raised and handed it no manager
CloseUnready(t) ==
    /\ spc[t] = "idle"
    /\ sret[t] = 0
    /\ sfail[t] # ""
    /\ _instance # 0
    /\ Closing(t)

----------------------------------------------------------------------------
(* The backing store.  Rows carry the columns the handlers' logic reads;   *)
(* address, account_type, date_of_birth, created_date and description are  *)
(* copied through unread and are left out.  Dates are yyyymmdd numbers,    *)
(* amounts are in cents, text is a sequence of characters.                 *)

BaseCustomers ==
    { [customer_id |-> 1, name |-> <<"A", "l">>, email |-> <<"a">>, phone |-> <<"5">>],
      [customer_id |-> 2, name |-> <<"B", "o">>, email |-> <<"b">>, phone |-> <<"6">>] }

\* customer 2 has no statement, statement 2 has no transaction
BaseStatements ==
    { [statement_id |-> 1, customer_id |-> 1, statement_period_start |-> 20250101,
       statement_period_end |-> 20250131, balance |-> 10000],
      [statement_id |-> 2, customer_id |-> 1, statement_period_start |-> 20250201,
       statement_period_end |-> 20250228, balance |-> 5000] }

BaseTransactions ==
    { [transaction_id |-> 1, statement_id |-> 1, transaction_date |-> 20250115,
       amount |-> -4250, transaction_type |-> "DEBIT", merchant |-> <<"S", "h", "o", "p">>],
      [transaction_id |-> 2, statement_id |-> 1, transaction_date |-> 20250120,
       amount |-> 10000, transaction_type |-> "CREDIT", merchant |-> <<"P", "a", "y">>] }

\* the LIMIT of search_transactions
RowLimit == 100

\* a database content
Store(n, cs, ss, ts) ==
    [name |-> n, customers |-> cs, statements |-> ss, transactions |-> ts]

StoreBase == Store("base", BaseCustomers, BaseStatements, BaseTransactions)

\* one more transaction than a search returns, each on a day of its own,
\* debits and credits alternating
ManyTransactions ==
    { [transaction_id |-> i, statement_id |-> 1,
       transaction_date |-> 20240000 + 100 * ((i - 1) \div 28 + 1) + ((i - 1) % 28) + 1,
       amount |-> IF i % 2 = 0 THEN 100 * i ELSE 0 - 100 * i,
       transaction_type |-> IF i % 2 = 0 THEN "CREDIT" ELSE "DEBIT",
       merchant |-> <<"S", "h", "o", "p">>] : i \in 1..(RowLimit + 1) }

StoreMany == Store("many", BaseCustomers, BaseStatements, ManyTransactions)

\* customer 1's statements with the later period under the smaller id
ReissuedStatements ==
    { [statement_id |-> 1, customer_id |-> 1, statement_period_start |-> 20250201,
       statement_period_end |-> 20250228, balance |-> 5000],
      [statement_id |-> 2, customer_id |-> 1, statement_period_start |-> 20250101,
       statement_period_end |-> 20250131, balance |-> 10000] }

StoreReissued == Store("reissued", BaseCustomers, ReissuedStatements, BaseTransactions)

\* customer 1 with a third statement that ends on the day statement 2 ends
TiedStatements ==
    BaseStatements \cup
    { [statement_id |-> 3, customer_id |-> 1, statement_period_start |-> 20250215,
       statement_period_end |-> 20250228, balance |-> 7000] }

StoreTied == Store("tied", BaseCustomers, TiedStatements, BaseTransactions)

\* the tables the statements read
Customers    == store.customers
Statements   == store.statements
Transactions == store.transactions

\* the tables of the older server (demos/mcp-server)
Users ==
    { [user_id |-> 1, name |-> <<"A", "l">>, date_of_birth |-> 19900101,
       phone_number |-> <<"5">>] }
FinStatements ==
    { [id |-> 1, user_id |-> 1, date |-> 20250131, total |-> 10000] }
FinTransactions ==
    { [id |-> 1, statement_id |-> 1, price |-> 4250, date |-> 20250115] }

\* ---- text
Alphabet == <<" ", "%", "-", ".", "/", "0", "1", "2", "3", "4", "5", "6", "7",
              "8", "9", "@", "A", "B", "P", "S", "_", "a", "b", "h", "l", "o",
              "p", "x", "y">>

CharRank(c) ==
    IF \E i \in 1..Len(Alphabet) : Alphabet[i] = c
    THEN CHOOSE i \in 1..Len(Alphabet) : Alphabet[i] = c
    ELSE 0

RECURSIVE TextLE(_, _)
TextLE(a, b) ==
    IF a = <<>> THEN TRUE
    ELSE IF b = <<>> THEN FALSE
    ELSE IF Head(a) = Head(b) THEN TextLE(Tail(a), Tail(b))
    ELSE CharRank(Head(a)) < CharRank(Head(b))

LowerChar(c) ==
    CASE c = "A" -> "a" [] c = "B" -> "b" [] c = "P" -> "p" [] c = "S" -> "s"
      [] c = "O" -> "o" [] c = "U" -> "u"
      [] OTHER -> c

UpperChar(c) ==
    CASE c = "a" -> "A" [] c = "b" -> "B" [] c = "h" -> "H" [] c = "l" -> "L"
      [] c = "o" -> "O" [] c = "p" -> "P" [] c = "x" -> "X" [] c = "y" -> "Y"
      [] c = "d" -> "D" [] c = "e" -> "E" [] c = "i" -> "I" [] c = "t" -> "T"
      [] c = "c" -> "C" [] c = "r" -> "R"
      [] OTHER -> c

Lower(cs) == [i \in 1..Len(cs) |-> LowerChar(cs[i])]
Upper(cs) == [i \in 1..Len(cs) |-> UpperChar(cs[i])]

\* text LIKE pat: % is any run of characters, _ any one character
RECURSIVE Like(_, _)
Like(text, pat) ==
    IF pat = <<>> THEN text = <<>>
    ELSE IF Head(pat) = "%"
         THEN Like(text, Tail(pat)) \/ (text # <<>> /\ Like(Tail(text), pat))
    ELSE IF text = <<>> THEN FALSE
    ELSE IF Head(pat) = "_" THEN Like(Tail(text), Tail(pat))
    ELSE Head(text) = Head(pat) /\ Like(Tail(text), Tail(pat))

\* ---- parameters as the server reads them
AllDigits(cs) == cs # <<>> /\ \A i \in 1..Len(cs) : cs[i] \in Digits

\* the number a parameter stands for, times 100.  A str is sent untyped and
\* read as an integer; text that is no integer is an error of the statement.
Num100(v) ==
    CASE v.ty = "NoneType" -> [null |-> TRUE, err |-> FALSE, n |-> 0]
      [] v.ty = "int"      -> [null |-> FALSE, err |-> FALSE, n |-> 100 * DecVal(v.s, 0)]
      [] v.ty = "str"      ->
            IF AllDigits(v.s)
            THEN [null |-> FALSE, err |-> FALSE, n |-> 100 * DecVal(v.s, 0)]
            ELSE [null |-> FALSE, err |-> TRUE, n |-> 0]
      [] v.ty = "float"    ->
            LET dot == CHOOSE i \in 1..Len(v.s) : v.s[i] = "."
                fr  == SubSeq(v.s, dot + 1, Len(v.s))
            IN  [null |-> FALSE, err |-> FALSE,
                 n |-> 100 * DecVal(SubSeq(v.s, 1, dot - 1), 0)
                       + (IF Len(fr) = 1 THEN 10 * DecVal(fr, 0) ELSE DecVal(fr, 0))]
      [] OTHER             -> [null |-> FALSE, err |-> TRUE, n |-> 0]

\* a parameter compared with a text column
TextParam(v) ==
    CASE v.ty = "NoneType" -> [null |-> TRUE, err |-> FALSE, t |-> <<>>]
      [] v.ty = "str"      -> [null |-> FALSE, err |-> FALSE, t |-> v.s]
      [] OTHER             -> [null |-> FALSE, err |-> TRUE, t |-> <<>>]

\* the date the match f of the text v stands for
DateOf(v, f) ==
    IF f.found /\ f.end = Len(v.s) /\ IsDate(f.Y, f.m, f.d)
    THEN [null |-> FALSE, err |-> FALSE, n |-> 10000 * f.Y + 100 * f.m + f.d]
    ELSE [null |-> FALSE, err |-> TRUE, n |-> 0]

\* a parameter compared with DATE(column): the text is read as a date
DateParam(v) ==
    CASE v.ty = "NoneType" -> [null |-> TRUE, err |-> FALSE, n |-> 0]
      [] v.ty = "str"      -> DateOf(v, RegexMatch(v.s))
      [] OTHER             -> [null |-> FALSE, err |-> TRUE, n |-> 0]

Abs(n) == IF n < 0 THEN 0 - n ELSE n

\* ---- result sets
\* every order in which the rows of S can come back
SeqsOf(S) ==
    {f \in [1..Cardinality(S) -> S] : \A i, j \in 1..Cardinality(S) : i # j => f[i] # f[j]}

\* a key of S with half of the other keys of S above it
MiddleKey(S, key) ==
    CHOOSE k \in {x[key] : x \in S} :
        Cardinality({j \in {x[key] : x \in S} : j > k}) =
            Cardinality({x[key] : x \in S}) \div 2

\* the orders ORDER BY key DESC allows: rows with equal keys come in any
\* order; otherwise the rows above a middle key in such an order, then the
\* rows from that key down in such an order
RECURSIVE Descending(_, _)
Descending(S, key) ==
    IF Cardinality({x[key] : x \in S}) <= 1 THEN SeqsOf(S)
    ELSE {a \o b :
            a \in Descending({x \in S : x[key] > MiddleKey(S, key)}, key),
            b \in Descending({x \in S : x[key] <= MiddleKey(S, key)}, key)}

\* the orders ORDER BY name allows
ByName(S) ==
    {f \in SeqsOf(S) : \A i, j \in 1..Cardinality(S) : i < j => TextLE(f[i].name, f[j].name)}

\* a statement without its LIMIT
Take_all(f, n) == f

Take(f, n) == IF Len(f) <= n THEN f ELSE SubSeq(f, 1, n)

Failed(e) == [err |-> e, rowsets |-> {<<>>}]
Rows(R)   == [err |-> "", rowsets |-> R]

----------------------------------------------------------------------------
(* The statements the handlers send.  A statement is [sql, params]: sql is *)
(* the text as the sequence of pieces the handler concatenates, params the *)
(* bound parameters.                                                       *)

SqlCustomerBy     == "SELECT customer_id, name, email, phone, ... FROM customers WHERE "
SqlEqParam        == " = %s"
SqlCustomersLike  == "SELECT customer_id, name, email, phone, ... FROM customers WHERE LOWER(name) LIKE LOWER(%s) ORDER BY name"
SqlStatementsOf_delete == "DELETE FROM statements WHERE customer_id = %s"
SqlStatementsOf   == "SELECT s.*, c.name as customer_name FROM statements s JOIN customers c ... WHERE s.customer_id = %s ORDER BY s.statement_period_start DESC"
SqlTxOfStatement  == "SELECT t.*, s.customer_id, c.name as customer_name FROM transactions t JOIN statements s ... JOIN customers c ... WHERE t.statement_id = %s ORDER BY t.transaction_date DESC"
SqlTxOfCustomer   == "SELECT t.*, s.customer_id, c.name as customer_name FROM transactions t JOIN statements s ... JOIN customers c ... WHERE s.customer_id = %s"
SqlTxSearch       == "SELECT t.*, s.customer_id, c.name as customer_name FROM transactions t JOIN statements s ... JOIN customers c ... WHERE 1=1"
SqlAndDateGe      == " AND DATE(t.transaction_date) >= %s"
SqlAndDateLe      == " AND DATE(t.transaction_date) <= %s"
SqlAndMerchant    == " AND LOWER(t.merchant) LIKE LOWER(%s)"
SqlAndType        == " AND t.transaction_type = %s"
SqlAndAbsGe       == " AND ABS(t.amount) >= %s"
SqlAndAbsLe       == " AND ABS(t.amount) <= %s"
SqlAndCustomer    == " AND s.customer_id = %s"
SqlOrderDate      == " ORDER BY t.transaction_date DESC"
SqlOrderDateLimit == " ORDER BY t.transaction_date DESC LIMIT 100"
SqlStatementSum   == "SELECT s.*, c.name as customer_name, COUNT(...), COALESCE(SUM(...), 0) ... FROM statements s JOIN customers c ... LEFT JOIN transactions t ... WHERE s.statement_id = %s GROUP BY ..."
SqlCustomerSum    == "SELECT c.*, COUNT(DISTINCT s.statement_id), MAX(s.statement_id), MAX(s.statement_period_end), (SELECT balance ... ORDER BY statement_period_end DESC LIMIT 1) FROM customers c LEFT JOIN statements s ... WHERE c.customer_id = %s GROUP BY ..."
SqlUserByPhone    == "SELECT * FROM users WHERE phone_number = %s"
SqlFinStatements  == "SELECT s.id, s.user_id, u.name, s.date, s.total FROM statements s JOIN users u ... WHERE s.user_id = %s ORDER BY s.date DESC"
SqlFinTx          == "SELECT t.id, t.statement_id, s.user_id, u.name, t.description, t.price, t.date FROM transactions t JOIN statements s ... JOIN users u ... WHERE t.statement_id = %s ORDER BY t.date DESC"

NoQuery == [sql |-> <<>>, params |-> <<>>]

\* ---- the rows each statement selects from
CustomerRow(c) ==
    [customer_id |-> c.customer_id, name |-> c.name, email |-> c.email,
     phone |-> c.phone]

StatementRows ==
    { [statement_id |-> x[1].statement_id, customer_id |-> x[1].customer_id,
       customer_name |-> x[2].name,
       statement_period_start |-> x[1].statement_period_start,
       statement_period_end |-> x[1].statement_period_end,
       balance |-> x[1].balance] :
      x \in {y \in Statements \X Customers : y[1].customer_id = y[2].customer_id} }

TxRows ==
    { [transaction_id |-> x[1].transaction_id, statement_id |-> x[1].statement_id,
       customer_id |-> x[2].customer_id, customer_name |-> x[3].name,
       transaction_date |-> x[1].transaction_date, amount |-> x[1].amount,
       transaction_type |-> x[1].transaction_type, merchant |-> x[1].merchant] :
      x \in {y \in Transactions \X Statements \X Customers :
                /\ y[1].statement_id = y[2].statement_id
                /\ y[2].customer_id = y[3].customer_id} }

RECURSIVE SumAbs(_)
SumAbs(S) ==
    IF S = {} THEN 0
    ELSE LET t == CHOOSE x \in S : TRUE IN Abs(t.amount) + SumAbs(S \ {t})

MaxOf(S) == CHOOSE n \in S : \A m \in S : m <= n

\* a nullable number: <<>> is NULL
Null     == <<>>
Some(n)  == <<n>>

StatementSummaryRow(r) ==
    LET ts == {t \in Transactions : t.statement_id = r.statement_id}
        cr == {t \in ts : t.transaction_type = "CREDIT"}
        dr == {t \in ts : t.transaction_type = "DEBIT"}
    IN  [statement_id |-> r.statement_id, customer_id |-> r.customer_id,
         customer_name |-> r.customer_name,
         statement_period_start |-> r.statement_period_start,
         statement_period_end |-> r.statement_period_end,
         balance |-> r.balance,
         total_transactions |-> Cardinality(ts),
         credit_count |-> Cardinality(cr), debit_count |-> Cardinality(dr),
         credit_total |-> SumAbs(cr), debit_total |-> SumAbs(dr)]

\* the rows of the customer summary: the scalar subquery may pick any
\* statement whose statement_period_end is the latest
CustomerSummaryRows(c) ==
    LET ss     == {x \in Statements : x.customer_id = c.customer_id}
        latest == {x \in ss : \A z \in ss : z.statement_period_end <= x.statement_period_end}
        base(b) ==
            [customer_id |-> c.customer_id, name |-> c.name, email |-> c.email,
             phone |-> c.phone, total_statements |-> Cardinality(ss),
             latest_statement_id |->
                IF ss = {} THEN Null ELSE Some(MaxOf({x.statement_id : x \in ss})),
             latest_statement_date |->
                IF ss = {} THEN Null ELSE Some(MaxOf({x.statement_period_end : x \in ss})),
             latest_balance |-> b]
    IN  IF ss = {} THEN {base(Null)} ELSE {base(Some(x.balance)) : x \in latest}

\* ---- the optional clauses of the two transaction searches
TextAsParam(t) == [null |-> t.null, err |-> t.err, n |-> 0]

\* the value a clause compares with: a date, a text or a number
ClauseParam(frag, v) ==
    IF frag \in {SqlAndDateGe, SqlAndDateLe} THEN DateParam(v)
    ELSE IF frag \in {SqlAndMerchant, SqlAndType} THEN TextAsParam(TextParam(v))
    ELSE Num100(v)

\* the clauses with the lower date bound exclusive
ClauseTest_exclusive(frag, v, p, row) ==
    /\ ~p.null
    /\ CASE frag = SqlAndDateGe   -> row.transaction_date > p.n
         [] frag = SqlAndDateLe   -> row.transaction_date <= p.n
         [] frag = SqlAndMerchant -> Like(Lower(row.merchant), Lower(v.s))
         [] frag = SqlAndType     -> row.transaction_type = Join(v.s)
         [] frag = SqlAndAbsGe    -> Abs(row.amount) >= p.n
         [] frag = SqlAndAbsLe    -> Abs(row.amount) <= p.n
         [] frag = SqlAndCustomer -> 100 * row.customer_id = p.n
         [] OTHER                 -> TRUE

\* the clauses with the amount compared as it is stored, sign included
ClauseTest_signed(frag, v, p, row) ==
    /\ ~p.null
    /\ CASE frag = SqlAndDateGe   -> row.transaction_date >= p.n
         [] frag = SqlAndDateLe   -> row.transaction_date <= p.n
         [] frag = SqlAndMerchant -> Like(Lower(row.merchant), Lower(v.s))
         [] frag = SqlAndType     -> row.transaction_type = Join(v.s)
         [] frag = SqlAndAbsGe    -> row.amount >= p.n
         [] frag = SqlAndAbsLe    -> row.amount <= p.n
         [] frag = SqlAndCustomer -> 100 * row.customer_id = p.n
         [] OTHER                 -> TRUE

\* the clause frag with parameter v, read as p, holds of a row
ClauseTest(frag, v, p, row) ==
    /\ ~p.null
    /\ CASE frag = SqlAndDateGe   -> row.transaction_date >= p.n
         [] frag = SqlAndDateLe   -> row.transaction_date <= p.n
         [] frag = SqlAndMerchant -> Like(Lower(row.merchant), Lower(v.s))
         [] frag = SqlAndType     -> row.transaction_type = Join(v.s)
         [] frag = SqlAndAbsGe    -> Abs(row.amount) >= p.n
         [] frag = SqlAndAbsLe    -> Abs(row.amount) <= p.n
         [] frag = SqlAndCustomer -> 100 * row.customer_id = p.n
         [] OTHER                 -> TRUE

ClauseHolds(frag, v, row) == ClauseTest(frag, v, ClauseParam(frag, v), row)

TxDate == "transaction_date"

\* a transaction search: base parameters first, then one per optional clause
TxSearch(q, nbase, from, limit) ==
    LET n      == Len(q.params) - nbase
        bad    == \E i \in 1..n : ClauseParam(q.sql[i + 1], q.params[nbase + i]).err
        hits   == {r \in from :
                     \A i \in 1..n : ClauseHolds(q.sql[i + 1], q.params[nbase + i], r)}
    IN  IF bad THEN Failed("psycopg.DataError")
        ELSE Rows({Take(f, limit) : f \in Descending(hits, TxDate)})

StatementStart == "statement_period_start"
FinDate == "date"

\* what the server answers to a statement: an error class, or the row
\* sequences it may return
Evaluate(q) ==
    LET head == q.sql[1]
        p    == q.params[1]
        num  == Num100(p)
        txt  == TextParam(p)
    IN  CASE head = SqlCustomerBy ->
               IF txt.err THEN Failed("psycopg.errors.UndefinedFunction")
               ELSE Rows(SeqsOf({CustomerRow(c) : c \in
                        {x \in Customers :
                            /\ ~txt.null
                            /\ (IF q.sql[2] = "email" THEN x.email ELSE x.phone) = txt.t}}))
          [] head = SqlCustomersLike ->
               IF txt.err THEN Failed("psycopg.errors.UndefinedFunction")
               ELSE Rows(ByName({CustomerRow(c) : c \in
                        {x \in Customers :
                            ~txt.null /\ Like(Lower(x.name), Lower(txt.t))}}))
          [] head = SqlStatementsOf ->
               IF num.err THEN Failed("psycopg.DataError")
               ELSE Rows(Descending({r \in StatementRows :
                            ~num.null /\ 100 * r.customer_id = num.n}, StatementStart))
          [] head = SqlTxOfStatement ->
               IF num.err THEN Failed("psycopg.DataError")
               ELSE Rows(Descending({r \in TxRows :
                            ~num.null /\ 100 * r.statement_id = num.n}, TxDate))
          [] head = SqlTxOfCustomer ->
               IF num.err THEN Failed("psycopg.DataError")
               ELSE TxSearch(q, 1, {r \in TxRows :
                            ~num.null /\ 100 * r.customer_id = num.n},
                             Cardinality(TxRows))
          [] head = SqlTxSearch ->
               TxSearch(q, 0, TxRows, RowLimit)
          [] head = SqlStatementSum ->
               IF num.err THEN Failed("psycopg.DataError")
               ELSE Rows(SeqsOf({StatementSummaryRow(r) : r \in
                        {x \in StatementRows :
                            ~num.null /\ 100 * x.statement_id = num.n}}))
          [] head = SqlCustomerSum ->
               IF num.err THEN Failed("psycopg.DataError")
               ELSE LET cs == {x \in Customers :
                                 ~num.null /\ 100 * x.customer_id = num.n}
                    IN  IF cs = {} THEN Rows({<<>>})
                        ELSE Rows({<<r>> : r \in UNION {CustomerSummaryRows(c) : c \in cs}})
          [] head = SqlUserByPhone ->
               IF txt.err THEN Failed("psycopg.errors.UndefinedFunction")
               ELSE Rows(SeqsOf({u \in Users : ~txt.null /\ u.phone_number = txt.t}))
          [] head = SqlFinStatements ->
               IF num.err THEN Failed("psycopg.DataError")
               ELSE Rows(Descending(
                        { [id |-> x[1].id, user_id |-> x[1].user_id, name |-> x[2].name,
                           date |-> x[1].date, total |-> x[1].total] :
                          x \in {y \in FinStatements \X Users :
                                    /\ y[1].user_id = y[2].user_id
                                    /\ ~num.null /\ 100 * y[1].user_id = num.n} },
                        FinDate))
          [] head = SqlFinTx ->
               IF num.err THEN Failed("psycopg.DataError")
               ELSE Rows(Descending(
                        { [id |-> x[1].id, statement_id |-> x[1].statement_id,
                           user_id |-> x[2].user_id, name |-> x[3].name,
                           price |-> x[1].price, date |-> x[1].date] :
                          x \in {y \in FinTransactions \X FinStatements \X Users :
                                    /\ y[1].statement_id = y[2].id
                                    /\ y[2].user_id = y[3].user_id
                                    /\ ~num.null /\ 100 * y[1].statement_id = num.n} },
                        FinDate))
          [] OTHER -> Failed("psycopg.errors.SyntaxError")

----------------------------------------------------------------------------
(* The tool handlers.  A handler is split where it touches the shared      *)
(* connection: Prepare is the code before cursor.execute (argument checks  *)
(* and statement construction), Finish the code after the fetch.           *)

NoExc       == [etype |-> "", msg |-> <<>>]
Exc(e, m)   == [etype |-> e, msg |-> m]

NoResult    == [kind |-> "none", etype |-> "", msg |-> <<>>, shape |-> "", rows |-> <<>>]
Ret(sh, rs) == [kind |-> "return", etype |-> "", msg |-> <<>>, shape |-> sh, rows |-> rs]
Err(e, m)   == [kind |-> "raise", etype |-> e, msg |-> m, shape |-> "", rows |-> <<>>]

PlanRaise(e, m) == [etype |-> e, msg |-> m, q |-> NoQuery]
PlanQuery(q)    == [etype |-> "", msg |-> <<>>, q |-> q]

\* the characters str(v) gives
RenderChars(v) == IF v.ty = "NoneType" THEN <<"N", "o", "n", "e">> ELSE v.s

\* f"%{v}%"
Wrapped(v) == PyStr(<<"%">> \o RenderChars(v) \o <<"%">>)

\* get_customer without its "if not email and not phone" check
get_customer_lenient(email, phone) ==
    LET field == IF Truthy(email) THEN "email" ELSE "phone"
        value == IF Truthy(email) THEN email ELSE phone
    IN  PlanQuery([sql |-> <<SqlCustomerBy, field, SqlEqParam>>,
                   params |-> <<value>>])

\* get_customer as it would be if it preferred the phone to the email
get_customer_by_phone(email, phone) ==
    IF ~Truthy(email) /\ ~Truthy(phone)
    THEN PlanRaise("ValueError", <<"Either email or phone must be provided">>)
    ELSE LET field == IF Truthy(phone) THEN "phone" ELSE "email"
             value == IF Truthy(phone) THEN phone ELSE email
         IN  PlanQuery([sql |-> <<SqlCustomerBy, field, SqlEqParam>>,
                        params |-> <<value>>])

get_customer(email, phone) ==
    IF ~Truthy(email) /\ ~Truthy(phone)
    THEN PlanRaise("ValueError", <<"Either email or phone must be provided">>)
    ELSE LET field == IF Truthy(email) THEN "email" ELSE "phone"
             value == IF Truthy(email) THEN email ELSE phone
         IN  PlanQuery([sql |-> <<SqlCustomerBy, field, SqlEqParam>>,
                        params |-> <<value>>])

search_customers_by_name(name) ==
    PlanQuery([sql |-> <<SqlCustomersLike>>, params |-> <<Wrapped(name)>>])

get_customer_statements(customer_id) ==
    PlanQuery([sql |-> <<SqlStatementsOf>>, params |-> <<customer_id>>])

get_statement_transactions(statement_id) ==
    PlanQuery([sql |-> <<SqlTxOfStatement>>, params |-> <<statement_id>>])

\* get_customer_transactions once validate_date gave s for start_date and
\* e for end_date (each looked at only when its argument is truthy)
DatedQuery(customer_id, start_date, end_date, s, e) ==
    IF Truthy(start_date) /\ s.kind = "raise" THEN PlanRaise(s.etype, s.msg)
    ELSE IF Truthy(end_date) /\ e.kind = "raise" THEN PlanRaise(e.etype, e.msg)
    ELSE PlanQuery(
           [sql |-> <<SqlTxOfCustomer>>
                    \o (IF Truthy(start_date) THEN <<SqlAndDateGe>> ELSE <<>>)
                    \o (IF Truthy(end_date) THEN <<SqlAndDateLe>> ELSE <<>>)
                    \o <<SqlOrderDate>>,
            params |-> <<customer_id>>
                    \o (IF Truthy(start_date) THEN <<s.value>> ELSE <<>>)
                    \o (IF Truthy(end_date) THEN <<e.value>> ELSE <<>>)])

get_customer_transactions(customer_id, start_date, end_date) ==
    DatedQuery(customer_id, start_date, end_date,
               validate_date(start_date, "start_date"),
               validate_date(end_date, "end_date"))

search_transactions(merchant, transaction_type, min_amount, max_amount, customer_id) ==
    IF Truthy(transaction_type) /\ transaction_type.ty # "str"
    THEN PlanRaise("AttributeError",
                   <<"'", transaction_type.ty, "' object has no attribute 'upper'">>)
    ELSE PlanQuery(
           [sql |-> <<SqlTxSearch>>
                    \o (IF Truthy(merchant) THEN <<SqlAndMerchant>> ELSE <<>>)
                    \o (IF Truthy(transaction_type) THEN <<SqlAndType>> ELSE <<>>)
                    \o (IF min_amount.ty # "NoneType" THEN <<SqlAndAbsGe>> ELSE <<>>)
                    \o (IF max_amount.ty # "NoneType" THEN <<SqlAndAbsLe>> ELSE <<>>)
                    \o (IF Truthy(customer_id) THEN <<SqlAndCustomer>> ELSE <<>>)
                    \o <<SqlOrderDateLimit>>,
            params |-> (IF Truthy(merchant) THEN <<Wrapped(merchant)>> ELSE <<>>)
                    \o (IF Truthy(transaction_type)
                        THEN <<PyStr(Upper(transaction_type.s))>> ELSE <<>>)
                    \o (IF min_amount.ty # "NoneType" THEN <<min_amount>> ELSE <<>>)
                    \o (IF max_amount.ty # "NoneType" THEN <<max_amount>> ELSE <<>>)
                    \o (IF Truthy(customer_id) THEN <<customer_id>> ELSE <<>>)])

get_statement_summary(statement_id) ==
    PlanQuery([sql |-> <<SqlStatementSum>>, params |-> <<statement_id>>])

get_customer_summary(customer_id) ==
    PlanQuery([sql |-> <<SqlCustomerSum>>, params |-> <<customer_id>>])

get_user_by_phone(phone_number) ==
    PlanQuery([sql |-> <<SqlUserByPhone>>, params |-> <<phone_number>>])

get_statements(user_id) ==
    PlanQuery([sql |-> <<SqlFinStatements>>, params |-> <<user_id>>])

get_transactions(statement_id) ==
    PlanQuery([sql |-> <<SqlFinTx>>, params |-> <<statement_id>>])

\* the handler's code up to cursor.execute
Prepare(c) ==
    LET a == c.args
    IN  CASE c.tool = "get_customer"               -> get_customer(a[1], a[2])
          [] c.tool = "search_customers_by_name"   -> search_customers_by_name(a[1])
          [] c.tool = "get_customer_statements"    -> get_customer_statements(a[1])
          [] c.tool = "get_statement_transactions" -> get_statement_transactions(a[1])
          [] c.tool = "get_customer_transactions"  ->
                get_customer_transactions(a[1], a[2], a[3])
          [] c.tool = "search_transactions"        ->
                search_transactions(a[1], a[2], a[3], a[4], a[5])
          [] c.tool = "get_statement_summary"      -> get_statement_summary(a[1])
          [] c.tool = "get_customer_summary"       -> get_customer_summary(a[1])
          [] c.tool = "get_user_by_phone"          -> get_user_by_phone(a[1])
          [] c.tool = "get_statements"             -> get_statements(a[1])
          [] c.tool = "get_transactions"           -> get_transactions(a[1])

\* the summary record as fetched, without the renames
RenamedSummary_raw(r) == r

\* the summary record after the five renames
RenamedSummary(r) ==
    [statement_id |-> r.statement_id, customer_id |-> r.customer_id,
     customer_name |-> r.customer_name,
     statement_period_start |-> r.statement_period_start,
     statement_period_end |-> r.statement_period_end,
     total_transactions |-> r.total_transactions,
     ending_balance |-> r.balance,
     credit_transactions |-> r.credit_count, debit_transactions |-> r.debit_count,
     total_credits |-> r.credit_total, total_debits |-> r.debit_total]

\* "if not result: return result" in place of "return {}"
EmptyRecord_null == Ret("NoneType", <<>>)

\* what "if not result: return {}" returns
EmptyRecord == Ret("dict", <<>>)

\* the handler's code after the fetch; got is what fetchone()/fetchall()
\* returned: none for fetchone()'s None, else the rows
Finish(c, got) ==
    CASE c.tool = "get_customer" ->
            IF got.none THEN EmptyRecord
            ELSE IF {"name", "customer_id"} \subseteq DOMAIN got.rows[1]
                 THEN Ret("dict", got.rows)
            ELSE Err("KeyError", <<"name">>)
      [] c.tool \in {"search_customers_by_name", "get_customer_statements",
                     "get_statement_transactions", "get_customer_transactions",
                     "search_transactions"} ->
            Ret("list", got.rows)
      [] c.tool = "get_statement_summary" ->
            IF got.none THEN EmptyRecord
            ELSE IF {"balance", "credit_count", "debit_count", "credit_total",
                     "debit_total"} \subseteq DOMAIN got.rows[1]
                 THEN Ret("dict", <<RenamedSummary(got.rows[1])>>)
            ELSE Err("KeyError", <<"balance">>)
      [] c.tool = "get_customer_summary" ->
            IF got.none THEN EmptyRecord ELSE Ret("dict", got.rows)
      [] c.tool = "get_user_by_phone" ->
            IF got.none THEN EmptyRecord
            ELSE IF "phone_number" \in DOMAIN got.rows[1]
                 THEN Ret("dict", got.rows)
            ELSE Err("AttributeError", <<"object has no attribute 'isoformat'">>)
      [] c.tool = "get_statements" ->
            IF got.rows = <<>> THEN Ret("list", <<>>)
            ELSE IF \A i \in 1..Len(got.rows) : "total" \in DOMAIN got.rows[i]
                 THEN Ret("list", got.rows)
            ELSE Err("AttributeError", <<"object has no attribute 'isoformat'">>)
      [] c.tool = "get_transactions" ->
            IF got.rows = <<>> THEN Ret("list", <<>>)
            ELSE IF \A i \in 1..Len(got.rows) : "price" \in DOMAIN got.rows[i]
                 THEN Ret("list", got.rows)
            ELSE Err("RuntimeError",
                     <<"Failed to retrieve transactions: ", "tuple index out of range">>)

PsycopgErrors ==
    {"psycopg.OperationalError", "psycopg.DataError", "psycopg.ProgrammingError",
     "psycopg.errors.InFailedSqlTransaction", "psycopg.errors.QueryCanceled",
     "psycopg.errors.UndefinedFunction", "psycopg.errors.SyntaxError"}

\* the message of the RuntimeError a caught psycopg.Error is turned into
DbErrorMessage(c, e) ==
    CASE c.tool = "get_user_by_phone" ->
            <<"Failed to retrieve user due to database error: ">> \o e.msg
      [] c.tool = "get_statements" ->
            <<"Failed to retrieve statements due to database error: ">> \o e.msg
      [] c.tool = "get_transactions" ->
            <<"Failed to retrieve transactions due to database error: ">> \o e.msg
      [] OTHER -> <<"Database error: ">> \o e.msg

\* the line logger.error writes for a caught psycopg.Error
DbErrorLog(c, e) ==
    CASE c.tool \in {"get_user_by_phone", "get_statements"} ->
            <<"Database error: ">> \o e.msg
      [] c.tool = "get_transactions" ->
            <<"Database error during transaction retrieval: ">> \o e.msg
      [] OTHER -> <<"Database error in ", c.tool, ": ">> \o e.msg

\* handle_db_errors around an exception that is no psycopg.Error: a
\* ValueError is logged and re-raised as RuntimeError, anything else passes
WrapOther(c, e) ==
    IF c.server = "redbank" /\ e.etype = "ValueError"
    THEN [out |-> Err("RuntimeError", <<"Invalid input: ">> \o e.msg),
          log |-> <<"Invalid input in ", c.tool, ": ">> \o e.msg]
    ELSE [out |-> Err(e.etype, e.msg), log |-> <<>>]

----------------------------------------------------------------------------
(* Tool invocations on the shared connection and cursor.                   *)

Workers == {1, 2}

\* ---- the invocations the callers issue
Txt(cs) == PyStr(cs)
IdArgs ==
    {PyInt(<<"1">>), PyInt(<<"2">>), PyInt(<<"9">>), PyStr(<<"1">>), PyStr(<<"x">>),
     PyFloat(<<"1", ".", "5">>), PyNone}
EmailArgs == {PyNone, Txt(<<>>), Txt(<<"a">>), Txt(<<"z">>)}
PhoneArgs == {PyNone, Txt(<<>>), Txt(<<"5">>), Txt(<<"6">>), Txt(<<"9">>)}
NameArgs  == {Txt(<<>>), Txt(<<"a">>), Txt(<<"O">>), Txt(<<"z">>), Txt(<<"_">>)}
RangeArgs ==
    {PyNone, Txt(<<>>),
     Txt(<<"2","0","2","5","-","0","1","-","1","5">>),
     Txt(<<"2","0","2","5","-","0","1","-","2","0">>),
     Txt(<<"2","0","2","5","-","1","3","-","0","1">>),
     Txt(<<"2","0","2","5","-","1","-","5">>),
     PyInt(<<"2","0","2","5","0","1","1","5">>)}
MerchantArgs == {PyNone, Txt(<<>>), Txt(<<"s","h","o">>)}
TypeArgs     == {PyNone, Txt(<<"d","e","b","i","t">>), PyInt(<<"5">>)}
MinArgs      == {PyNone, PyInt(<<"0">>), PyInt(<<"4","2">>)}
MaxArgs      == {PyNone, PyInt(<<"4","3">>)}
OwnerArgs    == {PyNone, PyInt(<<"0">>), PyInt(<<"1">>)}

Call(sv, tool, args) == [server |-> sv, tool |-> tool, args |-> args]
NoCall == Call("", "", <<>>)

RedbankCalls ==
    {Call("redbank", "get_customer", <<e, p>>) : e \in EmailArgs, p \in PhoneArgs}
    \cup {Call("redbank", "search_customers_by_name", <<n>>) : n \in NameArgs}
    \cup {Call("redbank", t, <<i>>) :
            t \in {"get_customer_statements", "get_statement_transactions",
                   "get_statement_summary", "get_customer_summary"},
            i \in IdArgs}
    \cup {Call("redbank", "get_customer_transactions", <<i, a, b>>) :
            i \in {PyInt(<<"1">>), PyInt(<<"2">>)}, a \in RangeArgs, b \in RangeArgs}
    \cup {Call("redbank", "search_transactions", <<m, t, lo, hi, i>>) :
            m \in MerchantArgs, t \in TypeArgs, lo \in MinArgs, hi \in MaxArgs,
            i \in OwnerArgs}

FinancialsCalls ==
    {Call("financials", "get_user_by_phone", <<p>>) : p \in PhoneArgs \ {PyNone}}
    \cup {Call("financials", t, <<i>>) :
            t \in {"get_statements", "get_transactions"}, i \in IdArgs}

\* the invocations used when two of them overlap: one per behaviour of a
\* handler (a record or a list found, nothing found, rejected arguments,
\* a statement the server rejects)
OverlapCalls ==
    { Call("redbank", "get_customer", <<Txt(<<"a">>), PyNone>>),
      Call("redbank", "get_customer", <<PyNone, PyNone>>),
      Call("redbank", "get_customer_statements", <<PyInt(<<"1">>)>>),
      Call("redbank", "get_customer_statements", <<PyStr(<<"x">>)>>),
      Call("redbank", "get_statement_transactions", <<PyInt(<<"9">>)>>),
      Call("redbank", "get_statement_summary", <<PyInt(<<"1">>)>>),
      Call("redbank", "get_customer_summary", <<PyInt(<<"1">>)>>),
      Call("financials", "get_user_by_phone", <<Txt(<<"5">>)>>),
      Call("financials", "get_statements", <<PyInt(<<"1">>)>>),
      Call("financials", "get_transactions", <<PyInt(<<"9">>)>>) }

\* the searches run on the database with more rows than the LIMIT
ManyCalls ==
    { Call("redbank", "search_transactions", <<PyNone, t, lo, PyNone, i>>) :
        t \in {PyNone, Txt(<<"d","e","b","i","t">>)},
        lo \in {PyNone, PyInt(<<"4","2">>)},
        i \in {PyNone, PyInt(<<"1">>)} }

\* the calls run on the database with the reissued statements
SummaryCalls ==
    {Call("redbank", "get_customer_summary", <<i>>) : i \in IdArgs}

Requests ==
    {c \in IF procs = Workers THEN OverlapCalls
           ELSE IF store.name = "many" THEN ManyCalls
           ELSE IF store.name = "reissued" THEN SummaryCalls
           ELSE RedbankCalls \cup FinancialsCalls :
        c.server = server}

\* the database contents tried with the threads ps
StoresFor(ps) ==
    IF ps = Workers THEN {StoreBase, StoreTied}
    ELSE {StoreBase, StoreMany, StoreReissued}

\* ---- the cursor's result set: has is FALSE when there is none
NoRows   == [has |-> FALSE, rows |-> <<>>]
Held(rs) == [has |-> TRUE, rows |-> rs]

SrvIdle ==
    /\ server = ""
    /\ store = StoreBase
    /\ procs = {}
    /\ pc = [t \in Workers |-> "idle"]
    /\ call = [t \in Workers |-> NoCall]
    /\ query = [t \in Workers |-> NoQuery]
    /\ own = [t \in Workers |-> NoRows]
    /\ exc = [t \in Workers |-> NoExc]
    /\ outcome = [t \in Workers |-> NoResult]
    /\ nexec = [t \in Workers |-> 0]
    /\ nroll = [t \in Workers |-> 0]
    /\ logged = [t \in Workers |-> <<>>]
    /\ curres = NoRows
    /\ tx = "idle"

\* the module-level code ran: the connection is open, nothing was executed
SrvInit(ps) ==
    /\ server \in {"redbank", "financials"}
    /\ store \in StoresFor(ps)
    /\ server = "financials" => store = StoreBase
    /\ procs = ps
    /\ pc = [t \in Workers |-> "idle"]
    /\ call = [t \in Workers |-> NoCall]
    /\ query = [t \in Workers |-> NoQuery]
    /\ own = [t \in Workers |-> NoRows]
    /\ exc = [t \in Workers |-> NoExc]
    /\ outcome = [t \in Workers |-> NoResult]
    /\ nexec = [t \in Workers |-> 0]
    /\ nroll = [t \in Workers |-> 0]
    /\ logged = [t \in Workers |-> <<>>]
    /\ curres = NoRows
    /\ tx = "idle"

\* the handler of invocation c ran as plan says: it stands before its
\* cursor.execute, or the exception of its argument checks left through
\* the wrapper
Started(t, c, plan) ==
    IF plan.etype = ""
    THEN /\ query' = [query EXCEPT ![t] = plan.q]
         /\ pc' = [pc EXCEPT ![t] = "execute"]
         /\ outcome' = [outcome EXCEPT ![t] = NoResult]
         /\ logged' = [logged EXCEPT ![t] = <<>>]
    ELSE /\ query' = [query EXCEPT ![t] = NoQuery]
         /\ pc' = [pc EXCEPT ![t] = "done"]
         /\ outcome' = [outcome EXCEPT ![t] =
                         WrapOther(c, Exc(plan.etype, plan.msg)).out]
         /\ logged' = [logged EXCEPT ![t] =
                         WrapOther(c, Exc(plan.etype, plan.msg)).log]

\* a caller invokes a tool: the handler runs up to its cursor.execute, or
\* to the exception its argument checks raise
Invoke(t, c) ==
    /\ t \in procs
    /\ pc[t] = "idle"
    /\ c.server = server
    /\ call' = [call EXCEPT ![t] = c]
    /\ own' = [own EXCEPT ![t] = NoRows]
    /\ exc' = [exc EXCEPT ![t] = NoExc]
    /\ nexec' = [nexec EXCEPT ![t] = 0]
    /\ nroll' = [nroll EXCEPT ![t] = 0]
    /\ Started(t, c, Prepare(c))
    /\ UNCHANGED <<server, store, procs, curres, tx>>
    /\ UNCHANGED <<dateVars, dmVars, appVars>>

\* the statement text begins with the keyword SELECT
IsSelect(text) == Len(text) >= 7 /\ SubSeq(text, 1, 7) = "SELECT "

\* the rows of the database after the server ran the statement q: a SELECT
\* leaves them as they are, any other statement is taken to remove rows
After(q, st) ==
    IF IsSelect(q.sql[1]) THEN st
    ELSE Store(st.name, st.customers, st.statements, {})

\* execute raises e: the cursor holds no result, the transaction is as status
ExecuteFails(t, e, m, status) ==
    /\ exc' = [exc EXCEPT ![t] = Exc(e, <<m>>)]
    /\ curres' = NoRows
    /\ tx' = status
    /\ pc' = [pc EXCEPT ![t] = "rollback"]
    /\ own' = own
    /\ store' = store

\* a successful execute as it would be on a connection in autocommit mode
Answered_autocommit(t, ans) ==
    /\ ans.err = ""
    /\ \E rs \in ans.rowsets :
          /\ curres' = Held(rs)
          /\ own' = [own EXCEPT ![t] = Held(rs)]
    /\ tx' = "idle"
    /\ pc' = [pc EXCEPT ![t] = "fetch"]
    /\ exc' = exc
    /\ store' = After(query[t], store)

\* execute succeeds with the server's answer ans: the cursor holds its rows
Answered(t, ans) ==
    /\ ans.err = ""
    /\ \E rs \in ans.rowsets :
          /\ curres' = Held(rs)
          /\ own' = [own EXCEPT ![t] = Held(rs)]
    /\ tx' = "intrans"
    /\ pc' = [pc EXCEPT ![t] = "fetch"]
    /\ exc' = exc
    /\ store' = After(query[t], store)

\* execute as it would be under a lock held from execute to fetch
Execute_locked(t) ==
    /\ pc[t] = "execute"
    /\ \A u \in Workers \ {t} : pc[u] \notin {"fetch", "rollback"}
    /\ nexec' = [nexec EXCEPT ![t] = nexec[t] + 1]
    /\ \/ /\ tx = "bad"
          /\ ExecuteFails(t, "psycopg.OperationalError",
                          "the connection is lost", "bad")
       \/ /\ tx = "inerror"
          /\ ExecuteFails(t, "psycopg.errors.InFailedSqlTransaction",
                          "current transaction is aborted", "inerror")
       \/ /\ tx \in {"idle", "intrans"}
          /\ Evaluate(query[t]).err # ""
          /\ ExecuteFails(t, Evaluate(query[t]).err,
                          "the statement was rejected", "inerror")
       \/ /\ tx \in {"idle", "intrans"}
          /\ ExecuteFails(t, "psycopg.errors.QueryCanceled",
                          "canceling statement due to statement timeout",
                          "inerror")
       \/ /\ tx \in {"idle", "intrans"}
          /\ Answered(t, Evaluate(query[t]))
    /\ UNCHANGED <<server, procs, call, query, outcome, nroll, logged>>
    /\ UNCHANGED <<dateVars, dmVars, appVars>>

\* db.cursor.execute(query, params): the cursor drops the result it held;
\* the statement runs in the connection's transaction, opened on demand
Execute(t) ==
    /\ pc[t] = "execute"
    /\ nexec' = [nexec EXCEPT ![t] = nexec[t] + 1]
    /\ \/ /\ tx = "bad"
          /\ ExecuteFails(t, "psycopg.OperationalError",
                          "the connection is lost", "bad")
       \/ /\ tx = "inerror"
          /\ ExecuteFails(t, "psycopg.errors.InFailedSqlTransaction",
                          "current transaction is aborted", "inerror")
       \/ /\ tx \in {"idle", "intrans"}
          /\ Evaluate(query[t]).err # ""
          /\ ExecuteFails(t, Evaluate(query[t]).err,
                          "the statement was rejected", "inerror")
       \/ /\ tx \in {"idle", "intrans"}
          /\ ExecuteFails(t, "psycopg.errors.QueryCanceled",
                          "canceling statement due to statement timeout",
                          "inerror")
       \/ /\ tx \in {"idle", "intrans"}
          /\ Answered(t, Evaluate(query[t]))
    /\ UNCHANGED <<server, procs, call, query, outcome, nroll, logged>>
    /\ UNCHANGED <<dateVars, dmVars, appVars>>

\* what fetchone() / fetchall() hand out of a result set, and what stays
FetchOne(rs) ==
    IF rs = <<>> THEN [got |-> [none |-> TRUE, rows |-> <<>>], left |-> <<>>]
    ELSE [got |-> [none |-> FALSE, rows |-> <<Head(rs)>>], left |-> Tail(rs)]
FetchAll(rs) == [got |-> [none |-> FALSE, rows |-> rs], left |-> <<>>]

\* the handlers that call fetchone(); the others call fetchall()
FetchesOne(c) ==
    c.tool \in {"get_customer", "get_statement_summary", "get_customer_summary",
                "get_user_by_phone"}

\* the handler's return value, or what the wrapper makes of its exception
Handled(c, r) ==
    IF r.kind = "raise"
    THEN WrapOther(c, Exc(r.etype, r.msg))
    ELSE [out |-> r, log |-> <<>>]

\* the fetch handed out f.got and left f.left; the handler finishes
Fetched(t, f) ==
    /\ curres' = Held(f.left)
    /\ outcome' = [outcome EXCEPT ![t] = Handled(call[t], Finish(call[t], f.got)).out]
    /\ logged' = [logged EXCEPT ![t] = Handled(call[t], Finish(call[t], f.got)).log]
    /\ pc' = [pc EXCEPT ![t] = "done"]
    /\ exc' = exc

\* db.cursor.fetchone() / fetchall() on whatever the shared cursor holds
\* now, then the rest of the handler
Fetch(t) ==
    /\ pc[t] = "fetch"
    /\ IF ~curres.has
       THEN /\ exc' = [exc EXCEPT ![t] =
                        Exc("psycopg.ProgrammingError", <<"no result available">>)]
            /\ pc' = [pc EXCEPT ![t] = "rollback"]
            /\ UNCHANGED <<curres, outcome, logged>>
       ELSE Fetched(t, IF FetchesOne(call[t]) THEN FetchOne(curres.rows)
                       ELSE FetchAll(curres.rows))
    /\ UNCHANGED <<server, store, procs, call, query, own, nexec, nroll, tx>>
    /\ UNCHANGED <<dateVars, dmVars, appVars>>

\* except psycopg.Error as e: db.conn.rollback(); logger.error(...);
\* raise RuntimeError(...).  rollback() on a lost connection raises itself,
\* and that exception leaves the handler in place of the two lines after it.
Rollback(t) ==
    /\ pc[t] = "rollback"
    /\ nroll' = [nroll EXCEPT ![t] = nroll[t] + 1]
    /\ pc' = [pc EXCEPT ![t] = "done"]
    /\ IF tx = "bad"
       THEN /\ outcome' = [outcome EXCEPT ![t] =
                            Err("psycopg.OperationalError", <<"the connection is lost">>)]
            /\ UNCHANGED <<tx, logged>>
       ELSE /\ tx' = "idle"
            /\ logged' = [logged EXCEPT ![t] = DbErrorLog(call[t], exc[t])]
            /\ outcome' = [outcome EXCEPT ![t] =
                            Err("RuntimeError", DbErrorMessage(call[t], exc[t]))]
    /\ UNCHANGED <<server, store, procs, call, query, own, exc, nexec, curres>>
    /\ UNCHANGED <<dateVars, dmVars, appVars>>

\* the caller has its answer; the thread is free for the next invocation
Return(t) ==
    /\ pc[t] = "done"
    /\ pc' = [pc EXCEPT ![t] = "idle"]
    /\ call' = [call EXCEPT ![t] = NoCall]
    /\ query' = [query EXCEPT ![t] = NoQuery]
    /\ own' = [own EXCEPT ![t] = NoRows]
    /\ exc' = [exc EXCEPT ![t] = NoExc]
    /\ outcome' = [outcome EXCEPT ![t] = NoResult]
    /\ nexec' = [nexec EXCEPT ![t] = 0]
    /\ nroll' = [nroll EXCEPT ![t] = 0]
    /\ logged' = [logged EXCEPT ![t] = <<>>]
    /\ UNCHANGED <<server, store, procs, curres, tx>>
    /\ UNCHANGED <<dateVars, dmVars, appVars>>

\* the network or the server drops the connection
ConnectionLost ==
    /\ procs # {}
    /\ tx # "bad"
    /\ tx' = "bad"
    /\ UNCHANGED <<server, store, procs, pc, call, query, own, exc, outcome, nexec,
                   nroll, logged, curres>>
    /\ UNCHANGED <<dateVars, dmVars, appVars>>

----------------------------------------------------------------------------
(* WhisperService.transcribe of chat-bot/voice-api-server/app/services/    *)
(* whisper_svc.py.  Each step is one operation on the file system or the   *)
(* transcription endpoint, which succeeds or raises.                       *)

PyBytes(cs) == [ty |-> "bytes", s |-> cs]

NoTranscript == [kind |-> "none", text |-> "", msg |-> <<>>]

WhisperIdle ==
    /\ wpc = "idle"
    /\ wargs = [filename |-> PyNone, audio_data |-> PyBytes(<<>>)]
    /\ suffix = ""
    /\ temp_filename = 0
    /\ files = {}
    /\ wexc = ""
    /\ wres = NoTranscript

\* os.path.splitext(name)[1]: from the last dot on, when a character other
\* than a dot stands before it
RECURSIVE LastDot(_, _)
LastDot(cs, i) ==
    IF i = 0 THEN 0 ELSE IF cs[i] = "." THEN i ELSE LastDot(cs, i - 1)

SplitExt(cs) ==
    IF LastDot(cs, Len(cs)) = 0
          \/ \A i \in 1..(LastDot(cs, Len(cs)) - 1) : cs[i] = "."
    THEN <<>>
    ELSE SubSeq(cs, LastDot(cs, Len(cs)), Len(cs))

\* ext_map.get(ext, ".wav")
ExtMap(ext) ==
    CASE ext = ".ogg" -> ".ogg" [] ext = ".opus" -> ".ogg" [] ext = ".wav" -> ".wav"
      [] ext = ".mp3" -> ".mp3" [] ext = ".mp4" -> ".mp4" [] ext = ".m4a" -> ".m4a"
      [] ext = ".webm" -> ".webm" [] ext = ".flac" -> ".flac"
      [] OTHER -> ".wav"

\* the suffix of the temporary file
SuffixOf(filename) ==
    IF Truthy(filename) THEN ExtMap(Join(SplitExt(Lower(filename.s)))) ELSE ".wav"

FilenameArgs ==
    {PyNone, PyStr(<<>>), PyStr(<<"a", ".", "o", "p", "u", "s">>),
     PyStr(<<"a", ".", "O", "P", "U", "S">>), PyStr(<<"a", ".", "x">>),
     PyStr(<<".", "o", "p", "u", "s">>), PyStr(<<"a">>)}
AudioArgs == {PyBytes(<<>>), PyBytes(<<"x", "y">>)}
Transcripts == {"", "hello"}

\* the texts of the errors the file system and the endpoint raise
FileErrors    == {"No space left on device"}
RequestErrors == {"Connection error.", "Error code: 400"}

\* transcribe(audio_data, filename) is called: lines 151-172
Transcribe(filename, audio_data) ==
    /\ wpc = "idle"
    /\ wargs' = [filename |-> filename, audio_data |-> audio_data]
    /\ suffix' = SuffixOf(filename)
    /\ temp_filename' = 0
    /\ wexc' = ""
    /\ wres' = NoTranscript
    /\ wpc' = "create"
    /\ UNCHANGED files
    /\ UNCHANGED <<dateVars, dmVars, srvVars, rsVars, agVars>>

\* a number no temporary file on disk has
FreshFile == CHOOSE n \in 1..(Cardinality(files) + 1) : \A f \in files : f.id # n

\* tempfile.NamedTemporaryFile(delete=False, suffix=suffix), and
\* temp_filename = temp_file.name
CreateTemp ==
    /\ wpc = "create"
    /\ \/ /\ files' = files \cup {[id |-> FreshFile, suffix |-> suffix]}
          /\ temp_filename' = FreshFile
          /\ wpc' = "write"
          /\ wexc' = wexc
       \/ /\ \E e \in FileErrors : wexc' = e
          /\ wpc' = "except"
          /\ UNCHANGED <<files, temp_filename>>
    /\ UNCHANGED <<wargs, suffix, wres>>
    /\ UNCHANGED <<dateVars, dmVars, srvVars, rsVars, agVars>>

\* temp_file.write, flush, os.fsync, and the end of the with block
WriteTemp ==
    /\ wpc = "write"
    /\ \/ /\ wpc' = "open"
          /\ wexc' = wexc
       \/ /\ \E e \in FileErrors : wexc' = e
          /\ wpc' = "except"
    /\ UNCHANGED <<wargs, suffix, temp_filename, files, wres>>
    /\ UNCHANGED <<dateVars, dmVars, srvVars, rsVars, agVars>>

\* open(temp_filename, "rb") and the request to the endpoint; the result to
\* return is (transcript.text, duration)
Request ==
    /\ wpc = "open"
    /\ \/ /\ \E txt \in Transcripts :
                wres' = [kind |-> "return", text |-> txt, msg |-> <<>>]
          /\ wpc' = "finally"
          /\ wexc' = wexc
       \/ /\ \E e \in FileErrors \cup RequestErrors : wexc' = e
          /\ wpc' = "except"
          /\ wres' = wres
    /\ UNCHANGED <<wargs, suffix, temp_filename, files>>
    /\ UNCHANGED <<dateVars, dmVars, srvVars, rsVars, agVars>>

\* the text in brackets of the error message
FileInfo(filename, audio_data, temp) ==
    (IF Truthy(filename) THEN " (filename: " \o Render(filename) \o ", size: "
     ELSE " (size: ")
       \o ToString(Len(audio_data.s)) \o " bytes, temp: "
       \o (IF temp = 0 THEN "None" ELSE "/tmp/tmp" \o ToString(temp) \o suffix)
       \o ")"

\* except Exception as e: raise Exception(f"Failed to transcribe audio...")
Except ==
    /\ wpc = "except"
    /\ wres' = [kind |-> "raise", text |-> "",
                msg |-> <<"Failed to transcribe audio",
                          FileInfo(wargs.filename, wargs.audio_data, temp_filename),
                          ": ", wexc>>]
    /\ wpc' = "finally"
    /\ UNCHANGED <<wargs, suffix, temp_filename, files, wexc>>
    /\ UNCHANGED <<dateVars, dmVars, srvVars, rsVars, agVars>>

\* the finally clause as it would be without the unlink
Unlinked_kept(fs, temp) == fs

\* finally: if temp_filename and os.path.exists(temp_filename):
\*              os.unlink(temp_filename)
Unlinked(fs, temp) ==
    IF temp # 0 /\ (\E f \in fs : f.id = temp)
    THEN {f \in fs : f.id # temp}
    ELSE fs

\* the finally clause runs, and the call returns or raises
Finally ==
    /\ wpc = "finally"
    /\ files' = Unlinked(files, temp_filename)
    /\ wpc' = "done"
    /\ UNCHANGED <<wargs, suffix, temp_filename, wexc, wres>>
    /\ UNCHANGED <<dateVars, dmVars, srvVars, rsVars, agVars>>

\* the caller has the result; the service is free for the next call
TranscribeDone ==
    /\ wpc = "done"
    /\ wpc' = "idle"
    /\ UNCHANGED <<wargs, suffix, temp_filename, files, wexc, wres>>
    /\ UNCHANGED <<dateVars, dmVars, srvVars, rsVars, agVars>>

----------------------------------------------------------------------------
(* ResponseService of chat-bot/voice-api-server/app/services/              *)
(* responses_svc.py and the routes of routers/voice.py that share one      *)
(* instance of it.  The routes are coroutines that call the service        *)
(* without awaiting, so the event loop serves one request at a time from   *)
(* clear_conversation or invoke on.                                        *)

NoRequest == [route |-> "", prompt |-> "", id |-> 0, found |-> 0]
NoAnswer  == [kind |-> "none", output |-> ""]

ResponseIdle ==
    /\ conversation_history = <<>>
    /\ rpc = "idle"
    /\ rcur = NoRequest
    /\ rbefore = 0
    /\ rres = NoAnswer
    /\ rn = 0

\* the requests served in one run
MaxRequests == 3

Replies == {"hi"}

Entry(role, content, id) == [role |-> role, content |-> content, id |-> id]

\* invoke: self.conversation_history.append({"role": "user", ...}), with
\* the history h it finds
InvokeEntered(route, prompt, h) ==
    /\ rn < MaxRequests
    /\ rn' = rn + 1
    /\ rcur' = [route |-> route, prompt |-> prompt, id |-> rn + 1,
                found |-> Len(conversation_history)]
    /\ rbefore' = Len(h)
    /\ conversation_history' = Append(h, Entry("user", prompt, rn + 1))
    /\ rres' = NoAnswer
    /\ rpc' = "tools"

\* the route as it would be without the call of clear_conversation()
Cleared_kept(h) == h

\* clear_conversation(): self.conversation_history = []
Cleared(h) == <<>>

\* POST /api/voice/complete: the audio is transcribed, the conversation is
\* cleared and invoke is entered with the transcript; a transcription
\* that raises ends the request before that
Complete ==
    /\ rpc = "idle"
    /\ \/ \E text \in Transcripts :
             InvokeEntered("complete", text, Cleared(conversation_history))
       \/ /\ rn < MaxRequests
          /\ rn' = rn + 1
          /\ rcur' = [route |-> "complete", prompt |-> "", id |-> rn + 1,
                      found |-> Len(conversation_history)]
          /\ rres' = [kind |-> "raise", output |-> "Failed to transcribe audio"]
          /\ rpc' = "done"
          /\ UNCHANGED <<conversation_history, rbefore>>
    /\ UNCHANGED <<dateVars, dmVars, srvVars, whVars, agVars>>

\* POST /api/voice/chat: chat_helper enters invoke with the text
Chat(text) ==
    /\ rpc = "idle"
    /\ InvokeEntered("chat", text, conversation_history)
    /\ UNCHANGED <<dateVars, dmVars, srvVars, whVars, agVars>>

\* POST /api/voice/conversation/clear
ClearConversation ==
    /\ rpc = "idle"
    /\ rn < MaxRequests
    /\ rn' = rn + 1
    /\ rcur' = [route |-> "clear", prompt |-> "", id |-> rn + 1,
                found |-> Len(conversation_history)]
    /\ conversation_history' = Cleared(conversation_history)
    /\ rres' = NoAnswer
    /\ rpc' = "done"
    /\ UNCHANGED rbefore
    /\ UNCHANGED <<dateVars, dmVars, srvVars, whVars, agVars>>

\* the except clause as it would be if it took the user entry back
InvokeFailed_undoing ==
    /\ rres' = [kind |-> "invocation_failed", output |-> "Response invocation failed: "]
    /\ rpc' = "done"
    /\ conversation_history' =
          SubSeq(conversation_history, 1, Len(conversation_history) - 1)
    /\ UNCHANGED <<rcur, rbefore, rn>>

\* except Exception as e: return {"output": ..., "error": "invocation_failed"}
InvokeFailed ==
    /\ rres' = [kind |-> "invocation_failed", output |-> "Response invocation failed: "]
    /\ rpc' = "done"
    /\ UNCHANGED <<conversation_history, rcur, rbefore, rn>>

\* invoke: self.get_vector_store(...) while the tools list is built; the
\* list call or a store that is not there raises
GetVectorStore ==
    /\ rpc = "tools"
    /\ \/ /\ rpc' = "create"
          /\ UNCHANGED <<conversation_history, rcur, rbefore, rres, rn>>
       \/ InvokeFailed
    /\ UNCHANGED <<dateVars, dmVars, srvVars, whVars, agVars>>

\* invoke: self.client.responses.create(..., input=self.conversation_history)
\* answers, and the assistant entry is appended, or raises
Create ==
    /\ rpc = "create"
    /\ \/ \E reply \in Replies :
             /\ conversation_history' =
                   Append(conversation_history, Entry("assistant", reply, rcur.id))
             /\ rres' = [kind |-> "ok", output |-> reply]
             /\ rpc' = "done"
             /\ UNCHANGED <<rcur, rbefore, rn>>
       \/ InvokeFailed
    /\ UNCHANGED <<dateVars, dmVars, srvVars, whVars, agVars>>

\* the route answers its client
RequestDone ==
    /\ rpc = "done"
    /\ rpc' = "idle"
    /\ UNCHANGED <<conversation_history, rcur, rbefore, rres, rn>>
    /\ UNCHANGED <<dateVars, dmVars, srvVars, whVars, agVars>>

----------------------------------------------------------------------------
(* AgentService of web-app/app/services/agent_svc.py, its invoke calls     *)
(* made one after the other.                                               *)

NoAgentAnswer == [output |-> "", error |-> ""]

AgentIdle ==
    /\ session_id = 0
    /\ agent_history = <<>>
    /\ apc = "idle"
    /\ atext = ""
    /\ sessions = 0
    /\ turns = <<>>
    /\ ares = NoAgentAnswer
    /\ an = 0

AppIdle == WhisperIdle /\ ResponseIdle /\ AgentIdle

\* the invoke calls made in one run
MaxInvokes == 3

\* invoke as it would be if it created a session on every call
NeedsSession_always(sid) == TRUE

\* invoke: if not self.session_id
NeedsSession(sid) == sid = 0

\* invoke(text, tools_ctx) is called and tests self.session_id
AgentInvoke(text) ==
    /\ apc = "idle"
    /\ an < MaxInvokes
    /\ an' = an + 1
    /\ atext' = text
    /\ ares' = NoAgentAnswer
    /\ apc' = IF NeedsSession(session_id) THEN "create_session" ELSE "turn"
    /\ UNCHANGED <<session_id, agent_history, sessions, turns>>
    /\ UNCHANGED <<dateVars, dmVars, srvVars, whVars, rsVars>>

\* self.session_id = self.create_session(): the agent hands out a new
\* session, or the call raises and create_session returns None; then
\* `if not self.session_id: return {..., "error": "session_failed"}`
CreateSession ==
    /\ apc = "create_session"
    /\ \/ /\ sessions' = sessions + 1
          /\ session_id' = sessions + 1
          /\ apc' = "turn"
          /\ ares' = ares
       \/ /\ session_id' = 0
          /\ ares' = [output |-> "Failed to create session", error |-> "session_failed"]
          /\ apc' = "done"
          /\ sessions' = sessions
    /\ UNCHANGED <<agent_history, atext, turns, an>>
    /\ UNCHANGED <<dateVars, dmVars, srvVars, whVars, rsVars>>

\* self.agent.create_turn(messages=[...], session_id=self.session_id,
\* stream=True) and the loop over its chunks: a final response is found and
\* appended to the history, or none is found, or an exception is caught
\* before or after the agent has made the turn
CreateTurn ==
    /\ apc = "turn"
    /\ \/ \E reply \in Replies :
             /\ turns' = Append(turns, [call |-> an, session |-> session_id])
             /\ agent_history' = Append(agent_history, Entry("assistant", reply, an))
             /\ ares' = [output |-> reply, error |-> ""]
       \/ /\ turns' = Append(turns, [call |-> an, session |-> session_id])
          /\ ares' = [output |-> "No response from agent", error |-> ""]
          /\ agent_history' = agent_history
       \/ /\ turns' \in {turns, Append(turns, [call |-> an, session |-> session_id])}
          /\ ares' = [output |-> "Agent invocation failed: ", error |-> "invocation_failed"]
          /\ agent_history' = agent_history
    /\ apc' = "done"
    /\ UNCHANGED <<session_id, atext, sessions, an>>
    /\ UNCHANGED <<dateVars, dmVars, srvVars, whVars, rsVars>>

\* the caller has the answer
AgentDone ==
    /\ apc = "done"
    /\ apc' = "idle"
    /\ UNCHANGED <<session_id, agent_history, atext, sessions, turns, ares, an>>
    /\ UNCHANGED <<dateVars, dmVars, srvVars, whVars, rsVars>>

----------------------------------------------------------------------------
(* The specifications.                                                     *)

InitDateSpec == InitDate /\ DmInit /\ SrvIdle /\ AppIdle
NextDate     == ValidateDate
SpecDate     == InitDateSpec /\ [][NextDate]_vars

InitSingleton == DateIdle /\ DmInit /\ SrvIdle /\ AppIdle
NextSingleton ==
    \E t \in Threads :
        \/ GetInstance(t) \/ NewCheck(t) \/ NewLock(t) \/ NewCheck2(t)
        \/ NewCreate(t) \/ NewSetInit(t) \/ NewUnlock(t) \/ NewRet(t)
        \/ InitCheck(t) \/ InitConnect(t) \/ InitCursor(t) \/ InitSet(t)
        \/ Close(t) \/ CloseUnready(t)
SpecSingleton == InitSingleton /\ [][NextSingleton]_vars

NextSrv ==
    \/ \E t \in Workers :
          \/ \E c \in Requests : Invoke(t, c)
          \/ Execute(t)
          \/ Fetch(t)
          \/ Rollback(t)
          \/ Return(t)
    \/ ConnectionLost

InitSeq  == DateIdle /\ DmInit /\ SrvInit({1}) /\ AppIdle
SpecSeq  == InitSeq /\ [][NextSrv]_vars

InitConc == DateIdle /\ DmInit /\ SrvInit(Workers) /\ AppIdle
SpecConc == InitConc /\ [][NextSrv]_vars

InitWhisper == DateIdle /\ DmInit /\ SrvIdle /\ AppIdle
NextWhisper ==
    \/ \E f \in FilenameArgs, a \in AudioArgs : Transcribe(f, a)
    \/ CreateTemp
    \/ WriteTemp
    \/ Request
    \/ Except
    \/ Finally
    \/ TranscribeDone
SpecWhisper == InitWhisper /\ [][NextWhisper]_vars

InitResponse == DateIdle /\ DmInit /\ SrvIdle /\ AppIdle
NextResponse ==
    \/ Complete
    \/ \E text \in Transcripts : Chat(text)
    \/ ClearConversation
    \/ GetVectorStore
    \/ Create
    \/ RequestDone
SpecResponse == InitResponse /\ [][NextResponse]_vars

InitAgent == DateIdle /\ DmInit /\ SrvIdle /\ AppIdle
NextAgent ==
    \/ \E text \in Transcripts : AgentInvoke(text)
    \/ CreateSession
    \/ CreateTurn
    \/ AgentDone
SpecAgent == InitAgent /\ [][NextAgent]_vars

----------------------------------------------------------------------------
(* Properties.                                                             *)

\* the text m has the part w
Mentions(m, w) == \E i \in 1..Len(m) : m[i] = w

\* thread t's invocation failed with the wrapper's "Invalid input" error
InvalidInput(t) ==
    /\ outcome[t].kind = "raise"
    /\ outcome[t].etype = "RuntimeError"
    /\ outcome[t].msg # <<>>
    /\ Head(outcome[t].msg) = "Invalid input: "

\* C1: all callers of get_instance() receive the same manager object and
\* psycopg.connect returns at most one connection, whatever the interleaving
C1_OneObjectOneConnection ==
    /\ \A t, u \in Threads : (sret[t] # 0 /\ sret[u] # 0) => sret[t] = sret[u]
    /\ Cardinality(opened) <= 1

\* what thread t's invocation hands its caller when it fetches the rows of
\* its own query
OwnAnswer(t) ==
    Handled(call[t],
            Finish(call[t], (IF FetchesOne(call[t]) THEN FetchOne(own[t].rows)
                             ELSE FetchAll(own[t].rows)).got)).out

\* C2: no lock orders the handlers' steps on the shared cursor: while one
\* invocation stands between its execute and its fetch, the execute or the
\* rollback another invocation has reached can be taken
C2_NoLock ==
    \A t, u \in Workers :
        (t # u /\ pc[t] = "fetch") =>
            /\ pc[u] = "execute" => ENABLED Execute(u)
            /\ pc[u] = "rollback" => ENABLED Rollback(u)

\* C2 (case): an invocation whose execute succeeded returned rows that are
\* not the rows of its own query
C2_ForeignRows ==
    \E t \in Workers :
        /\ pc[t] = "done"
        /\ own[t].has
        /\ outcome[t].kind = "return"
        /\ outcome[t] # OwnAnswer(t)

\* C3: when a wrapped handler failed with a psycopg error, by the time the
\* caller has the error the transaction was rolled back, the failure was
\* logged with the operation name, and the caller holds the database error
\* carrying the underlying message
C3_RolledBackLoggedWrapped ==
    \A t \in Workers :
        (server = "redbank" /\ pc[t] = "done" /\ exc[t].etype \in PsycopgErrors) =>
            /\ nroll[t] >= 1
            /\ tx \notin {"intrans", "inerror"}
            /\ Mentions(logged[t], call[t].tool)
            /\ outcome[t] = Err("RuntimeError", <<"Database error: ">> \o exc[t].msg)

\* C4: an exception that leaves a wrapped handler is the wrapper's database
\* error or its invalid-input error, nothing else
C4_OnlyDesignedErrors ==
    \A t \in Workers :
        (server = "redbank" /\ pc[t] = "done" /\ outcome[t].kind = "raise") =>
            /\ outcome[t].etype = "RuntimeError"
            /\ Head(outcome[t].msg) \in {"Database error: ", "Invalid input: "}

\* the parameter names of the handlers
ParameterNames ==
    {"email", "phone", "name", "customer_id", "statement_id", "start_date",
     "end_date", "merchant", "transaction_type", "min_amount", "max_amount"}

\* C5: a failed invocation raises one of two distinguishable error kinds,
\* its message names the failing operation and, for a validation failure,
\* the offending parameter
C5_TypedNamedErrors ==
    \A t \in Workers :
        (server = "redbank" /\ pc[t] = "done" /\ outcome[t].kind = "raise") =>
            /\ outcome[t].etype \in {"InvalidInputError", "DatabaseError"}
            /\ Mentions(outcome[t].msg, call[t].tool)
            /\ outcome[t].etype = "InvalidInputError" =>
                  \E p \in ParameterNames : Mentions(outcome[t].msg, p)

\* C6: get_customer with neither email nor phone fails with the invalid-input
\* error, and no statement is built, executed or rolled back for it
C6_NeitherEmailNorPhone ==
    \A t \in Workers :
        (/\ call[t].tool = "get_customer"
         /\ ~Truthy(call[t].args[1])
         /\ ~Truthy(call[t].args[2])) =>
            /\ pc[t] = "done"
            /\ query[t] = NoQuery
            /\ nexec[t] = 0
            /\ nroll[t] = 0
            /\ outcome[t] = Err("RuntimeError",
                                <<"Invalid input: ",
                                  "Either email or phone must be provided">>)

\* C6 (case): get_customer(None, None) was called and has failed
C6_CalledWithNeither ==
    \E t \in Workers :
        /\ pc[t] = "done"
        /\ call[t] = Call("redbank", "get_customer", <<PyNone, PyNone>>)
        /\ outcome[t].kind = "raise"

\* a real calendar date written as 4-digit year, "-", 2-digit month, "-",
\* 2-digit day
IsStrictDate(cs) ==
    /\ Len(cs) = 10
    /\ cs[5] = "-"
    /\ cs[8] = "-"
    /\ \A i \in {1, 2, 3, 4, 6, 7, 9, 10} : cs[i] \in Digits
    /\ IsDate(DecVal(SubSeq(cs, 1, 4), 0), DecVal(SubSeq(cs, 6, 7), 0),
              DecVal(SubSeq(cs, 9, 10), 0))

\* C7: validate_date returns the string exactly when it is a strict date;
\* on every other string it raises the error naming the parameter and the
\* expected format
C7_ExactlyStrictDates ==
    (dres.kind # "none" /\ date_str.ty = "str") =>
        IF IsStrictDate(date_str.s)
        THEN dres = Returned(date_str)
        ELSE /\ dres.kind = "raise"
             /\ dres.etype = "ValueError"
             /\ Mentions(dres.msg, param_name)
             /\ Mentions(dres.msg, DateFormatText)

\* a native integer or a string containing only an integer
IsIdentifier(v) == v.ty = "int" \/ (v.ty = "str" /\ AllDigits(v.s))

\* the handlers whose one argument is an identifier
IdentifierTools ==
    {"get_customer_statements", "get_statement_transactions",
     "get_statement_summary", "get_customer_summary"}

\* C8: a handler given an identifier that is neither an integer nor an
\* integer string executes nothing and fails with the invalid-input error
C8_IdentifiersValidated ==
    \A t \in Workers :
        (/\ server = "redbank"
         /\ call[t].tool \in IdentifierTools
         /\ ~IsIdentifier(call[t].args[1])) =>
            /\ nexec[t] = 0
            /\ pc[t] = "done" => InvalidInput(t)

\* a string strptime does not accept
Malformed(v) == v.ty = "str" /\ Strptime(v) # ""

\* C9: get_customer_transactions given start_date and end_date as strings
\* or None, one of them a string that is no date, fails with the invalid-input error; nothing is executed or
\* rolled back and the string is no parameter of a statement
C9_BadDatesRejected ==
    \A t \in Workers :
        (/\ call[t].tool = "get_customer_transactions"
         /\ call[t].args[2].ty \in {"NoneType", "str"}
         /\ call[t].args[3].ty \in {"NoneType", "str"}
         /\ Malformed(call[t].args[2]) \/ Malformed(call[t].args[3])) =>
            /\ nexec[t] = 0
            /\ nroll[t] = 0
            /\ \A i \in 1..Len(query[t].params) : ~Malformed(query[t].params[i])
            /\ pc[t] = "done" => InvalidInput(t)

\* C10: an invocation whose query matched no row returns the empty list (the
\* list operations) or the empty record (the single-record lookups)
C10_NotFoundIsEmpty ==
    \A t \in Workers :
        (pc[t] = "done" /\ own[t].has /\ own[t].rows = <<>>) =>
            outcome[t] = IF FetchesOne(call[t]) THEN Ret("dict", <<>>)
                         ELSE Ret("list", <<>>)

\* C10 (case): a single-record lookup on an unknown key has returned
C10_UnknownKeyLookedUp ==
    \E t \in Workers :
        /\ pc[t] = "done"
        /\ FetchesOne(call[t])
        /\ own[t].has
        /\ own[t].rows = <<>>
        /\ outcome[t].kind = "return"

\* the rows a finished invocation returned, as a set
Returned_rows(t) == {outcome[t].rows[i] : i \in 1..Len(outcome[t].rows)}

\* the rows of thread t's result come latest transaction first
LatestFirst(t) ==
    \A i, j \in 1..Len(outcome[t].rows) :
        i < j => outcome[t].rows[i].transaction_date >= outcome[t].rows[j].transaction_date

\* the yyyymmdd number of a strict date string
StrictDateNum(cs) ==
    10000 * DecVal(SubSeq(cs, 1, 4), 0) + 100 * DecVal(SubSeq(cs, 6, 7), 0)
        + DecVal(SubSeq(cs, 9, 10), 0)

\* a date bound of a request: absent, or a strict date string
IsBound(v) == v.ty = "NoneType" \/ (v.ty = "str" /\ IsStrictDate(v.s))

\* date d is within the bounds lo and hi, each inclusive when given
Within(d, lo, hi) ==
    /\ lo.ty = "str" => StrictDateNum(lo.s) <= d
    /\ hi.ty = "str" => d <= StrictDateNum(hi.s)

\* C11: get_customer_transactions returns exactly the transactions on the
\* customer's statements dated within the inclusive bounds given, latest
\* first; with start_date after end_date that is the empty list, no error
C11_DateRange ==
    \A t \in Workers :
        (/\ pc[t] = "done"
         /\ call[t].tool = "get_customer_transactions"
         /\ call[t].args[1].ty = "int"
         /\ IsBound(call[t].args[2])
         /\ IsBound(call[t].args[3])
         /\ own[t].has) =>
            /\ outcome[t].kind = "return"
            /\ outcome[t].shape = "list"
            /\ Returned_rows(t) =
                 {r \in TxRows :
                    /\ r.customer_id = DecVal(call[t].args[1].s, 0)
                    /\ Within(r.transaction_date, call[t].args[2], call[t].args[3])}
            /\ Len(outcome[t].rows) = Cardinality(Returned_rows(t))
            /\ LatestFirst(t)

\* C11 (case): a start_date equal to the date of the customer's latest
\* transaction returned that transaction and not the earlier one
C11_BoundInclusive ==
    \E t \in Workers :
        /\ pc[t] = "done"
        /\ call[t].tool = "get_customer_transactions"
        /\ call[t].args[2] = PyStr(<<"2","0","2","5","-","0","1","-","2","0">>)
        /\ call[t].args[3] = PyNone
        /\ outcome[t].kind = "return"
        /\ Len(outcome[t].rows) = 1
        /\ outcome[t].rows[1].transaction_date = 20250120

\* the transactions that satisfy every clause of thread t's statement
Matching(t) ==
    {r \in TxRows :
        \A i \in 1..Len(query[t].params) :
            ClauseHolds(query[t].sql[i + 1], query[t].params[i], r)}

\* C12: search_transactions returns at most 100 rows, latest first, and
\* when more than 100 transactions match, the 100 latest of them
C12_AtMostHundred ==
    \A t \in Workers :
        (/\ pc[t] = "done"
         /\ call[t].tool = "search_transactions"
         /\ outcome[t].kind = "return") =>
            /\ Len(outcome[t].rows) <= 100
            /\ Len(outcome[t].rows) = Cardinality(Returned_rows(t))
            /\ LatestFirst(t)
            /\ Returned_rows(t) \subseteq Matching(t)
            /\ Cardinality(Matching(t)) <= 100 => Returned_rows(t) = Matching(t)
            /\ Cardinality(Matching(t)) > 100 =>
                  /\ Len(outcome[t].rows) = 100
                  /\ \A r \in Matching(t) \ Returned_rows(t) :
                        \A x \in Returned_rows(t) :
                            r.transaction_date <= x.transaction_date

\* C12 (case): a search that more than 100 transactions match has returned
C12_MoreThanHundredMatch ==
    \E t \in Workers :
        /\ pc[t] = "done"
        /\ call[t].tool = "search_transactions"
        /\ outcome[t].kind = "return"
        /\ Cardinality(Matching(t)) > 100

\* text has sub as a run of consecutive characters
Contains(text, sub) ==
    \E i \in 1..(Len(text) + 1) :
        /\ i + Len(sub) - 1 <= Len(text)
        /\ SubSeq(text, i, i + Len(sub) - 1) = sub

\* an argument was passed: any value other than None
Supplied(v) == v.ty # "NoneType"

\* row r satisfies the filters merchant m, type ty, amount bounds lo and hi
\* and customer id, each when supplied
Satisfies(r, m, ty, lo, hi, id) ==
    /\ Supplied(m) => Contains(Lower(r.merchant), Lower(m.s))
    /\ Supplied(ty) => r.transaction_type = Join(Upper(ty.s))
    /\ Supplied(lo) => Abs(r.amount) >= 100 * DecVal(lo.s, 0)
    /\ Supplied(hi) => Abs(r.amount) <= 100 * DecVal(hi.s, 0)
    /\ Supplied(id) => r.customer_id = DecVal(id.s, 0)

\* C13: every row search_transactions returns satisfies every filter that
\* was supplied, customer_id = 0, min_amount = 0 and the empty merchant
\* string included
C13_EverySuppliedFilterHolds ==
    \A t \in Workers :
        (/\ pc[t] = "done"
         /\ call[t].tool = "search_transactions"
         /\ outcome[t].kind = "return") =>
            \A r \in Returned_rows(t) :
                Satisfies(r, call[t].args[1], call[t].args[2], call[t].args[3],
                          call[t].args[4], call[t].args[5])

C15_SubstringMatch ==
    \A t \in Workers :
        /\ (/\ pc[t] = "done"
            /\ call[t].tool = "search_customers_by_name"
            /\ outcome[t].kind = "return") =>
               {r.customer_id : r \in Returned_rows(t)} =
                  {c.customer_id : c \in
                      {x \in Customers :
                          Contains(Lower(x.name), Lower(call[t].args[1].s))}}
        /\ (/\ pc[t] = "done"
            /\ call[t].tool = "search_transactions"
            /\ call[t].args[1].ty = "str"
            /\ outcome[t].kind = "return") =>
               \A r \in Returned_rows(t) :
                   Contains(Lower(r.merchant), Lower(call[t].args[1].s))

\* the transactions of statement id that have type ty
TransactionsOf(id, ty) ==
    {x \in Transactions : x.statement_id = id /\ x.transaction_type = ty}

\* C16: get_statement_summary on an existing statement returns one record;
\* its counts and totals are the number and the sum of absolute amounts of
\* the statement's CREDIT and DEBIT transactions (zeros when it has none),
\* under the five new field names and not under the raw ones
C16_StatementSummary ==
    \A t \in Workers :
        (/\ pc[t] = "done"
         /\ call[t].tool = "get_statement_summary"
         /\ IsIdentifier(call[t].args[1])
         /\ \E x \in Statements : x.statement_id = DecVal(call[t].args[1].s, 0)
         /\ own[t].has) =>
            /\ outcome[t].kind = "return"
            /\ outcome[t].shape = "dict"
            /\ Len(outcome[t].rows) = 1
            /\ {"ending_balance", "credit_transactions", "debit_transactions",
                "total_credits", "total_debits"} \subseteq DOMAIN outcome[t].rows[1]
            /\ {"balance", "credit_count", "debit_count", "credit_total",
                "debit_total"} \cap DOMAIN outcome[t].rows[1] = {}
            /\ outcome[t].rows[1].credit_transactions =
                  Cardinality(TransactionsOf(DecVal(call[t].args[1].s, 0), "CREDIT"))
            /\ outcome[t].rows[1].debit_transactions =
                  Cardinality(TransactionsOf(DecVal(call[t].args[1].s, 0), "DEBIT"))
            /\ outcome[t].rows[1].total_credits =
                  SumAbs(TransactionsOf(DecVal(call[t].args[1].s, 0), "CREDIT"))
            /\ outcome[t].rows[1].total_debits =
                  SumAbs(TransactionsOf(DecVal(call[t].args[1].s, 0), "DEBIT"))
            /\ \E x \in Statements :
                  /\ x.statement_id = DecVal(call[t].args[1].s, 0)
                  /\ outcome[t].rows[1].ending_balance = x.balance

\* C16 (case): the summary of a statement without transactions was returned
\* with counts and totals 0
C16_NoTransactions ==
    \E t \in Workers :
        /\ pc[t] = "done"
        /\ call[t].tool = "get_statement_summary"
        /\ outcome[t].kind = "return"
        /\ outcome[t].rows # <<>>
        /\ outcome[t].rows[1].total_transactions = 0
        /\ outcome[t].rows[1].total_debits = 0

\* the statements of the customer thread t's call names
StatementsOfCalled(t) ==
    {x \in Statements : x.customer_id = DecVal(call[t].args[1].s, 0)}

\* C17: get_customer_summary of a customer with statements reports in
\* latest_statement_id, latest_statement_date and latest_balance one and the
\* same statement, the most recent one; of a customer without statements
\* it reports 0 statements and three nulls; of an unknown customer it
\* returns the empty record
C17_LatestIsOneStatement ==
    \A t \in Workers :
        (/\ pc[t] = "done"
         /\ call[t].tool = "get_customer_summary"
         /\ call[t].args[1].ty = "int"
         /\ own[t].has) =>
            /\ outcome[t].kind = "return"
            /\ outcome[t].shape = "dict"
            /\ (\A c \in Customers : c.customer_id # DecVal(call[t].args[1].s, 0))
                  => outcome[t].rows = <<>>
            /\ (\E c \in Customers : c.customer_id = DecVal(call[t].args[1].s, 0))
                  => /\ Len(outcome[t].rows) = 1
                     /\ outcome[t].rows[1].total_statements =
                           Cardinality(StatementsOfCalled(t))
                     /\ StatementsOfCalled(t) = {} =>
                           /\ outcome[t].rows[1].latest_statement_id = Null
                           /\ outcome[t].rows[1].latest_statement_date = Null
                           /\ outcome[t].rows[1].latest_balance = Null
                     /\ StatementsOfCalled(t) # {} =>
                           \E x \in StatementsOfCalled(t) :
                              /\ \A z \in StatementsOfCalled(t) :
                                    z.statement_period_end <= x.statement_period_end
                              /\ outcome[t].rows[1].latest_statement_id = Some(x.statement_id)
                              /\ outcome[t].rows[1].latest_statement_date =
                                    Some(x.statement_period_end)
                              /\ outcome[t].rows[1].latest_balance = Some(x.balance)

\* C18: two get_customer_summary invocations with the same customer_id on
\* the same database content, each answered from its own query, return
\* identical results
C18_SameAnswerTwice ==
    \A t, u \in Workers :
        (/\ pc[t] = "done" /\ pc[u] = "done"
         /\ call[t].tool = "get_customer_summary"
         /\ call[u] = call[t]
         /\ own[t].has /\ own[u].has
         /\ outcome[t] = OwnAnswer(t)
         /\ outcome[u] = OwnAnswer(u)) =>
            outcome[t] = outcome[u]

\* the invocations c and d are of the same tool and supply the same
\* arguments
SameArguments(c, d) ==
    /\ c.tool = d.tool
    /\ \A i \in 1..Len(c.args) : Supplied(c.args[i]) <=> Supplied(d.args[i])

\* C19: the SQL text an invocation sends is the text any invocation of that
\* tool with the same arguments supplied sends, whatever their values
C19_TextIndependentOfValues ==
    \A t \in Workers :
        (server = "redbank" /\ query[t] # NoQuery) =>
            \A d \in {x \in Requests : x.tool = call[t].tool} :
                (SameArguments(call[t], d) /\ Prepare(d).etype = "") =>
                    Prepare(d).q.sql = query[t].sql

\* C20: no step of any invocation, successful or failing, changes the
\* customer, statement and transaction rows of the database, and every
\* statement a handler has sent to the cursor is a SELECT
C20_ReadOnly ==
    [][/\ store' = store
       /\ \A t \in Workers :
             query'[t] # NoQuery => IsSelect(query'[t].sql[1])]_vars

\* an invocation has completed whose statement was executed, failed at the
\* server and was rolled back
C20_ExecutedAndRolledBack ==
    \E t \in Workers :
        /\ pc[t] = "done"
        /\ query[t] # NoQuery
        /\ nexec[t] = 1
        /\ nroll[t] = 1
        /\ outcome[t].kind = "raise"

\* C21: every close() call, the first or a later one, on a manager that was
\* handed out or on one whose connection was never established, raises
\* nothing and leaves the manager's connection and cursor closed; it closes
\* nothing else, and nothing that was closed is open again
C21_CloseIsSafe ==
    [][(cret' # cret \/ closed' # closed \/ curclosed' # curclosed) =>
          /\ \A c \in cret' : c.out = "ok"
          /\ conn # 0 => conn \in closed'
          /\ cursor # 0 => cursor \in curclosed'
          /\ closed \subseteq closed' /\ closed' \subseteq closed \cup {conn}
          /\ curclosed \subseteq curclosed'
          /\ curclosed' \subseteq curclosed \cup {cursor}]_vars

\* close() has run on a manager whose connection was never established, on
\* an open connection, and again on that connection after it was closed
C21_ClosedUnreadyOnceAndAgain ==
    /\ {c.found : c \in cret} = {"unset", "open", "closed"}
    /\ conn \in closed
    /\ cursor \in curclosed

\* C22: a manager is marked initialized, and is handed out by
\* get_instance(), only with a connection and a cursor that connect
\* produced; a call in which connect raised hands its caller the exception
\* and no manager; and a call that finds the manager not initialized goes on
\* to connect
C22_FailedConnectIsFatal ==
    /\ [](/\ _initialized = "true" => (conn \in opened /\ cursor \in opened)
          /\ \A t \in Threads :
                /\ sret[t] # 0 => (_initialized = "true" /\ sfail[t] = "")
                /\ (spc[t] = "idle" /\ sfail[t] # "") => sret[t] = 0)
    /\ [][\A t \in Threads :
             (spc[t] = "init_check" /\ _initialized = "false"
                 /\ spc'[t] # "init_check") =>
                    (spc'[t] = "init_connect" /\ sret'[t] = sret[t])]_vars

\* a thread whose get_instance() failed because no connection could be made
\* has called it again and stands at connect again
C22_ConnectsAgain ==
    \E t \in Threads :
        /\ sfail[t] = "psycopg.OperationalError"
        /\ spc[t] = "init_connect"
        /\ opened = {}
        /\ _initialized = "false"

\* the rows of thread t's result are in descending order of the field key
ByFieldDescending(t, key) ==
    \A i, j \in 1..Len(outcome[t].rows) :
        i < j => outcome[t].rows[i][key] >= outcome[t].rows[j][key]

\* C23: search_customers_by_name returns exactly the customers whose name
\* contains the argument, by name ascending; get_customer_statements returns
\* exactly the customer's statements, by period start descending;
\* get_statement_transactions returns exactly the statement's transactions,
\* by transaction date descending; no row is returned twice
C23_ListsExactAndOrdered ==
    \A t \in Workers :
        (pc[t] = "done" /\ own[t].has /\ server = "redbank") =>
            /\ (call[t].tool = "search_customers_by_name"
                    /\ call[t].args[1].ty = "str") =>
                  /\ outcome[t].kind = "return"
                  /\ Returned_rows(t) =
                        {CustomerRow(c) : c \in
                            {x \in Customers :
                                Contains(Lower(x.name), Lower(call[t].args[1].s))}}
                  /\ Len(outcome[t].rows) = Cardinality(Returned_rows(t))
                  /\ \A i, j \in 1..Len(outcome[t].rows) :
                        i < j => TextLE(outcome[t].rows[i].name,
                                        outcome[t].rows[j].name)
            /\ (call[t].tool = "get_customer_statements"
                    /\ call[t].args[1].ty = "int") =>
                  /\ outcome[t].kind = "return"
                  /\ Returned_rows(t) =
                        {r \in StatementRows :
                            r.customer_id = DecVal(call[t].args[1].s, 0)}
                  /\ Len(outcome[t].rows) = Cardinality(Returned_rows(t))
                  /\ ByFieldDescending(t, StatementStart)
            /\ (call[t].tool = "get_statement_transactions"
                    /\ call[t].args[1].ty = "int") =>
                  /\ outcome[t].kind = "return"
                  /\ Returned_rows(t) =
                        {r \in TxRows :
                            r.statement_id = DecVal(call[t].args[1].s, 0)}
                  /\ Len(outcome[t].rows) = Cardinality(Returned_rows(t))
                  /\ ByFieldDescending(t, TxDate)

\* C24: whenever transcribe has returned or raised, no temporary file is on
\* disk; the call returns a transcript when nothing failed, and otherwise
\* raises an exception whose message begins "Failed to transcribe audio"
C24_NoTempFileLeft ==
    wpc \in {"done", "idle"} =>
        /\ files = {}
        /\ wpc = "done" =>
              IF wexc = ""
              THEN wres.kind = "return" /\ wres.text \in Transcripts
              ELSE /\ wres.kind = "raise"
                   /\ Head(wres.msg) = "Failed to transcribe audio"

\* a call has raised after its temporary file had been created
C24_RaisedAfterFileCreated ==
    /\ wpc = "done"
    /\ wres.kind = "raise"
    /\ temp_filename # 0
    /\ wexc \in RequestErrors

C28_HistoryShape ==
    /\ \A i \in 1..Len(conversation_history) :
          conversation_history[i].role = "assistant" =>
              /\ i > 1
              /\ conversation_history[i - 1].role = "user"
              /\ conversation_history[i - 1].id = conversation_history[i].id
    /\ rpc = "done" =>
          /\ rres.kind = "ok" =>
                /\ Len(conversation_history) = rbefore + 2
                /\ conversation_history[rbefore + 1] =
                      Entry("user", rcur.prompt, rcur.id)
                /\ conversation_history[rbefore + 2] =
                      Entry("assistant", rres.output, rcur.id)
          /\ rres.kind = "invocation_failed" =>
                /\ Len(conversation_history) = rbefore + 1
                /\ conversation_history[rbefore + 1] =
                      Entry("user", rcur.prompt, rcur.id)
          /\ rcur.route = "clear" => conversation_history = <<>>

\* an invoke has succeeded on a history that holds the unanswered user
\* entry of an invoke that failed
C28_AnsweredAfterUnanswered ==
    /\ rpc = "done"
    /\ rres.kind = "ok"
    /\ rcur.route = "chat"
    /\ rbefore >= 1
    /\ conversation_history[rbefore].role = "user"

\* C26: invoke is about to create a session only while session_id is unset;
\* a session id, once set, never changes, and every turn was created with
\* it; an invoke that answered "session_failed" has left session_id unset
\* and created no turn, and an invoke that finds session_id unset goes on to
\* create a session
C26_OneSession ==
    /\ [](/\ apc = "create_session" => session_id = 0
          /\ \A i \in 1..Len(turns) :
                turns[i].session = session_id /\ session_id # 0
          /\ sessions <= 1
          /\ (apc = "done" /\ ares.error = "session_failed") =>
                /\ session_id = 0
                /\ \A i \in 1..Len(turns) : turns[i].call # an)
    /\ [][/\ session_id # 0 => session_id' = session_id
          /\ (apc = "idle" /\ apc' # "idle") =>
                (apc' = "create_session" <=> session_id = 0)]_vars

\* after an invoke that failed to create a session, the next invoke stands
\* at creating a session again
C26_TriesAgain ==
    /\ an >= 2
    /\ apc = "create_session"
    /\ session_id = 0
    /\ turns = <<>>

\* C27: an invocation has issued a rollback exactly when a psycopg error
\* was raised in it, and at most once; one that returned, and one that
\* failed on invalid input, issued none; the connection leaves a transaction
\* for the idle state only by such a rollback, and after a successful
\* execute it is inside a transaction unless the connection was lost
C27_RollbackOnlyOnDbError ==
    /\ [](\A t \in Workers :
             /\ nroll[t] <= 1
             /\ pc[t] = "done" =>
                   /\ nroll[t] = 1 <=> exc[t].etype \in PsycopgErrors
                   /\ outcome[t].kind = "return" => nroll[t] = 0
                   /\ InvalidInput(t) => (nroll[t] = 0 /\ nexec[t] = 0)
                   /\ (own[t].has /\ nroll[t] = 0) => tx \in {"intrans", "bad"})
    /\ [][/\ \A t \in Workers :
                nroll'[t] > nroll[t] =>
                    (pc[t] = "rollback" /\ exc[t].etype \in PsycopgErrors)
          /\ (tx \in {"intrans", "inerror"} /\ tx' = "idle") =>
                \E t \in Workers : nroll'[t] > nroll[t]]_vars

\* an invocation stands before its execute on a connection that is still
\* inside the transaction an earlier invocation's query opened
C27_StillInTransaction ==
    \E t \in Workers :
        /\ pc[t] = "execute"
        /\ nexec[t] = 0
        /\ tx = "intrans"

\* the manager is marked initialized and its connection and cursor are closed
ClosedManager ==
    /\ _initialized = "true"
    /\ conn \in closed
    /\ cursor \in curclosed

\* C29: close() leaves the singleton and its mark as they are, and once the
\* initialized manager is closed it stays so: no later step opens a
\* connection or replaces the manager, its connection or its cursor, and a
\* get_instance() that returns hands out that same manager
C29_ClosedForGood ==
    [][/\ (closed' # closed \/ curclosed' # curclosed \/ cret' # cret) =>
              (_instance' = _instance /\ _initialized' = _initialized)
       /\ ClosedManager =>
              /\ ClosedManager'
              /\ <<_instance, conn, cursor, opened>>' = <<_instance, conn, cursor, opened>>
              /\ \A t \in Threads :
                    (spc[t] = "init_check" /\ spc'[t] = "idle") =>
                        (sret'[t] = _instance /\ sfail'[t] = "")]_vars

\* C30: a get_customer that returned looked the customer up by the email
\* whenever the email is not empty, whatever the phone: it returned the
\* customer with that email, or the empty record when there is none; only
\* with the email absent or empty did it return the customer with the phone
C30_EmailBeforePhone ==
    \A t \in Workers :
        (/\ pc[t] = "done"
         /\ call[t].tool = "get_customer"
         /\ outcome[t].kind = "return") =>
            LET email == call[t].args[1]
                phone == call[t].args[2]
                found == IF Truthy(email)
                         THEN {c \in Customers : c.email = email.s}
                         ELSE {c \in Customers : c.phone = phone.s}
            IN  /\ query[t].params = <<IF Truthy(email) THEN email ELSE phone>>
                /\ IF found = {} THEN outcome[t] = Ret("dict", <<>>)
                   ELSE \E c \in found : outcome[t] = Ret("dict", <<c>>)

\* get_customer was called with an email no customer has and the phone of a
\* customer, and has returned the empty record
C30_UnknownEmailKnownPhone ==
    \E t \in Workers :
        /\ pc[t] = "done"
        /\ call[t].tool = "get_customer"
        /\ Truthy(call[t].args[1])
        /\ Truthy(call[t].args[2])
        /\ \A c \in Customers : c.email # call[t].args[1].s
        /\ \E c \in Customers : c.phone = call[t].args[2].s
        /\ outcome[t] = Ret("dict", <<>>)

=============================================================================
